---- MODULE Spec2Model ----
(***************************************************************************)
(* A model of gonfig's environment source (src/src/environment.rs) and of  *)
(* the code generated by #[derive(Gonfig)] (src/gonfig_derive/src/lib.rs). *)
(*                                                                         *)
(* A Rust String is a sequence of one-character strings, so that case      *)
(* conversion, prefix tests, trimming and splitting are computed as the    *)
(* code computes them; a character that is not printable ASCII is written  *)
(* as its code point, "U+00E9".  A serde_json::Value is a record tagged by *)
(* t.                                                                      *)
(***************************************************************************)
EXTENDS Integers, Sequences, FiniteSets, TLC

(***************************************************************************)
(* Characters and strings                                                  *)
(***************************************************************************)
LowerLetters ==
  <<"a","b","c","d","e","f","g","h","i","j","k","l","m",
    "n","o","p","q","r","s","t","u","v","w","x","y","z">>

UpperLetters ==
  <<"A","B","C","D","E","F","G","H","I","J","K","L","M",
    "N","O","P","Q","R","S","T","U","V","W","X","Y","Z">>

DigitSeq == <<"0","1","2","3","4","5","6","7","8","9">>

DigitChars == {DigitSeq[i] : i \in 1..10}

IndexOf(c, seq) == CHOOSE i \in 1..Len(seq) : seq[i] = c

\* char::to_ascii_uppercase and char::to_ascii_lowercase, letter by letter
UpperOf == [c \in {LowerLetters[i] : i \in 1..26} |-> UpperLetters[IndexOf(c, LowerLetters)]]

LowerOf == [c \in {UpperLetters[i] : i \in 1..26} |-> LowerLetters[IndexOf(c, UpperLetters)]]

CharToUpper(c) == IF c \in DOMAIN UpperOf THEN UpperOf[c] ELSE c

CharToLower(c) == IF c \in DOMAIN LowerOf THEN LowerOf[c] ELSE c

\* str::to_uppercase, on ASCII
to_uppercase(s) == [i \in 1..Len(s) |-> CharToUpper(s[i])]

\* str::to_lowercase, on ASCII
to_lowercase(s) == [i \in 1..Len(s) |-> CharToLower(s[i])]

starts_with(s, p) == Len(p) <= Len(s) /\ SubSeq(s, 1, Len(p)) = p

ends_with(s, p) == Len(p) <= Len(s) /\ SubSeq(s, Len(s) - Len(p) + 1, Len(s)) = p

\* s[n..]: the string without its first n characters
DropFirst(s, n) == SubSeq(s, n + 1, Len(s))

\* str::trim_start_matches: every leading repetition of pat is removed
RECURSIVE trim_start_matches(_, _)
trim_start_matches(s, pat) ==
  IF pat # <<>> /\ starts_with(s, pat)
  THEN trim_start_matches(DropFirst(s, Len(pat)), pat)
  ELSE s

\* the first position at which pat occurs in s, 0 when there is none
FindFirst(s, pat) ==
  LET hits == {i \in 1..(Len(s) - Len(pat) + 1) : SubSeq(s, i, i + Len(pat) - 1) = pat}
  IN IF hits = {} THEN 0 ELSE CHOOSE i \in hits : \A j \in hits : i <= j

\* str::split on a non-empty pattern, collected: the empty string gives <<"">>
RECURSIVE split(_, _)
split(s, sep) ==
  LET i == FindFirst(s, sep)
  IN IF i = 0
     THEN <<s>>
     ELSE <<SubSeq(s, 1, i - 1)>> \o split(DropFirst(s, i + Len(sep) - 1), sep)

\* [String]::join
RECURSIVE join(_, _)
join(parts, sep) ==
  IF parts = <<>> THEN <<>>
  ELSE IF Len(parts) = 1 THEN parts[1]
  ELSE parts[1] \o sep \o join(Tail(parts), sep)

(***************************************************************************)
(* serde_json::Value                                                       *)
(*                                                                         *)
(* A Number is an integer (serde_json's PosInt and NegInt: a sign and the  *)
(* decimal digits of the magnitude, without leading zeros) or a float, the *)
(* f64 itself: a sign, an odd mantissa m (its decimal digits; zero has no  *)
(* digits) and the exponent e of m * 2^e.  Digits are kept as characters:  *)
(* the 64-bit limits are compared on digit strings.                        *)
(***************************************************************************)
VNull == [t |-> "Null"]

VBool(b) == [t |-> "Bool", b |-> b]

VInt(neg, mag) == [t |-> "Number", kind |-> "int", neg |-> neg, mag |-> mag]

VFloat(neg, digits, exp) ==
  [t |-> "Number", kind |-> "float", neg |-> neg, digits |-> digits, exp |-> exp]

VString(s) == [t |-> "String", s |-> s]

VArray(a) == [t |-> "Array", a |-> a]

VObject(o) == [t |-> "Object", o |-> o]

\* Map::new()
EmptyMap == <<>>

IsObject(v) == v.t = "Object"

\* Map::insert: the entry is added, or its value replaced
MapInsert(m, k, v) == [x \in DOMAIN m \cup {k} |-> IF x = k THEN v ELSE m[x]]

\* Map::remove
MapRemove(m, k) == [x \in DOMAIN m \ {k} |-> m[x]]

(***************************************************************************)
(* Decimal digit strings                                                   *)
(***************************************************************************)
IsDigits(s) == Len(s) > 0 /\ \A i \in 1..Len(s) : s[i] \in DigitChars

DigitVal(c) == IndexOf(c, DigitSeq) - 1

RECURSIVE StripLeadingZeros(_)
StripLeadingZeros(d) ==
  IF d # <<>> /\ d[1] = "0" THEN StripLeadingZeros(Tail(d)) ELSE d

RECURSIVE StripTrailingZeros(_)
StripTrailingZeros(d) ==
  IF d # <<>> /\ d[Len(d)] = "0" THEN StripTrailingZeros(SubSeq(d, 1, Len(d) - 1)) ELSE d

\* the magnitude of a digit string: no leading zeros, zero is "0"
Magnitude(d) == LET m == StripLeadingZeros(d) IN IF m = <<>> THEN <<"0">> ELSE m

\* a <lex b on digit strings of equal length
RECURSIVE DigitsLess(_, _)
DigitsLess(a, b) ==
  IF a = <<>> \/ b = <<>> THEN FALSE
  ELSE IF a[1] # b[1] THEN DigitVal(a[1]) < DigitVal(b[1])
  ELSE DigitsLess(Tail(a), Tail(b))

\* a <= b on magnitudes
MagLeq(a, b) == Len(a) < Len(b) \/ (Len(a) = Len(b) /\ ~DigitsLess(b, a))

RECURSIVE DigitsToNat(_)
DigitsToNat(d) ==
  IF d = <<>> THEN 0 ELSE DigitsToNat(SubSeq(d, 1, Len(d) - 1)) * 10 + DigitVal(d[Len(d)])

\* a digit string as a number; a long one saturates (an exponent far out of range)
SaturatedNat(d) ==
  LET m == Magnitude(d) IN IF Len(m) > 6 THEN 999999 ELSE DigitsToNat(m)

RECURSIVE NatToDigits(_)
NatToDigits(n) ==
  IF n < 10 THEN <<DigitSeq[n + 1]>> ELSE NatToDigits(n \div 10) \o <<DigitSeq[(n % 10) + 1]>>

\* the Value of a small natural number, as json!(n) gives it
Num(n) == VInt(FALSE, NatToDigits(n))

\* i64::MAX, the magnitude of i64::MIN, u64::MAX
I64MaxMag == <<"9","2","2","3","3","7","2","0","3","6","8","5","4","7","7","5","8","0","7">>

I64MinMag == <<"9","2","2","3","3","7","2","0","3","6","8","5","4","7","7","5","8","0","8">>

U64MaxMag == <<"1","8","4","4","6","7","4","4","0","7","3","7","0","9","5","5","1","6","1","5">>

(***************************************************************************)
(* str::parse::<bool>, ::<i64>, ::<f64>                                    *)
(***************************************************************************)
Fail == [ok |-> FALSE]

Ok(v) == [ok |-> TRUE, v |-> v]

\* bool::from_str: exactly "true" or "false"
parse_bool(s) ==
  IF s = <<"t","r","u","e">> THEN Ok(TRUE)
  ELSE IF s = <<"f","a","l","s","e">> THEN Ok(FALSE)
  ELSE Fail

IsSigned(s) == s # <<>> /\ s[1] \in {"+", "-"}

IsNegative(s) == s # <<>> /\ s[1] = "-"

Unsigned(s) == IF IsSigned(s) THEN Tail(s) ELSE s

\* i64::from_str: an optional sign and at least one digit, within the 64-bit range.
\* The result is the Value json!(n) makes of it.
parse_i64(s) ==
  LET d == Unsigned(s)
      m == Magnitude(d)
  IN IF ~IsDigits(d) THEN Fail
     ELSE IF IsNegative(s)
          THEN IF MagLeq(m, I64MinMag) THEN Ok(VInt(m # <<"0">>, m)) ELSE Fail
          ELSE IF MagLeq(m, I64MaxMag) THEN Ok(VInt(FALSE, m)) ELSE Fail

\* the length of the longest prefix of s made of digits
RECURSIVE DigitPrefixLen(_)
DigitPrefixLen(s) ==
  IF s # <<>> /\ s[1] \in DigitChars THEN 1 + DigitPrefixLen(Tail(s)) ELSE 0

(***************************************************************************)
(* f64                                                                     *)
(*                                                                         *)
(* A finite f64 is a sign, an odd integer (its decimal digits) and the     *)
(* power of two it is multiplied by; zero has no digits.  Every f64 has    *)
(* one such form, so equal records are equal floats.  The arithmetic is    *)
(* exact on naturals of any size, kept as limbs in base 2^15 with the      *)
(* least significant limb first (<<>> is zero), and every result is        *)
(* rounded once, to the nearest f64 with ties to the even one.             *)
(***************************************************************************)
Pow2Table ==
  <<1, 2, 4, 8, 16, 32, 64, 128, 256, 512, 1024, 2048, 4096, 8192, 16384, 32768>>

\* the base of the limbs: 2^15
BigBase == Pow2Table[16]

\* 2^n, for n in 0..15
Pow2(n) == Pow2Table[n + 1]

MaxOf(S) == CHOOSE i \in S : \A j \in S : j <= i

MinOf(S) == CHOOSE i \in S : \A j \in S : i <= j

\* the limb i of a, zero above the last one
Limb(a, i) == IF i >= 1 /\ i <= Len(a) THEN a[i] ELSE 0

\* a without its leading zero limbs
BigTrim(a) ==
  IF \A i \in 1..Len(a) : a[i] = 0 THEN <<>>
  ELSE SubSeq(a, 1, MaxOf({i \in 1..Len(a) : a[i] # 0}))

\* The limbs of a sum, given the sums s of the limbs position by position and the
\* carry c0 into the first: a position takes a carry when the nearest position
\* below it that is not BigBase - 1 is BigBase or more (or when there is none and
\* c0 is 1).
CarryInto(s, c0, i) ==
  \/ \E j \in 1..(i - 1) : s[j] >= BigBase /\ \A k \in (j + 1)..(i - 1) : s[k] = BigBase - 1
  \/ c0 = 1 /\ \A k \in 1..(i - 1) : s[k] = BigBase - 1

CarriedSum(s, c0) ==
  BigTrim([i \in 1..(Len(s) + 1) |->
             (Limb(s, i) + (IF CarryInto(s, c0, i) THEN 1 ELSE 0)) % BigBase])

LimbSums(a, b, n) == [i \in 1..n |-> Limb(a, i) + Limb(b, i)]

\* a + b
BigAdd(a, b) == CarriedSum(LimbSums(a, b, IF Len(a) >= Len(b) THEN Len(a) ELSE Len(b)), 0)

\* a position borrows when the nearest position below it whose limbs differ has the
\* smaller limb in a
BorrowInto(a, b, i) ==
  \E j \in 1..(i - 1) : a[j] < Limb(b, j) /\ \A k \in (j + 1)..(i - 1) : a[k] = Limb(b, k)

\* a - b, for a >= b
BigSub(a, b) ==
  BigTrim([i \in 1..Len(a) |->
             (a[i] - Limb(b, i) - (IF BorrowInto(a, b, i) THEN 1 ELSE 0) + 2 * BigBase) % BigBase])

\* a with w zero limbs below it: a * BigBase^w
BigShlLimbs(a, w) == IF a = <<>> THEN <<>> ELSE [i \in 1..w |-> 0] \o a

\* a * k, for 0 <= k <= BigBase: the low halves of the products of the limbs, and
\* their high halves one limb up
BigMulSmall(a, k) ==
  IF a = <<>> \/ k = 0 THEN <<>>
  ELSE BigAdd([i \in 1..Len(a) |-> (a[i] * k) % BigBase],
              <<0>> \o [i \in 1..Len(a) |-> (a[i] * k) \div BigBase])

\* -1, 0 or 1 as a is below, equal to or above b
BigCmp(a, b) ==
  IF Len(a) # Len(b) THEN (IF Len(a) < Len(b) THEN -1 ELSE 1)
  ELSE IF a = b THEN 0
  ELSE IF a[MaxOf({i \in 1..Len(a) : a[i] # b[i]})] < b[MaxOf({i \in 1..Len(a) : a[i] # b[i]})]
       THEN -1
  ELSE 1

\* a * b: b is halved down to single limbs
RECURSIVE BigMul(_, _)
BigMul(a, b) ==
  IF a = <<>> \/ b = <<>> THEN <<>>
  ELSE IF Len(b) = 1 THEN BigMulSmall(a, b[1])
  ELSE BigAdd(BigMul(a, BigTrim(SubSeq(b, 1, Len(b) \div 2))),
              BigShlLimbs(BigMul(a, SubSeq(b, (Len(b) \div 2) + 1, Len(b))), Len(b) \div 2))

\* a * 2^n
BigShl(a, n) == BigShlLimbs(BigMulSmall(a, Pow2(n % 15)), n \div 15)

\* floor(a / 2^k), for k in 0..14
BigShrBits(a, k) ==
  BigTrim([i \in 1..Len(a) |->
             (a[i] \div Pow2(k)) + (Limb(a, i + 1) % Pow2(k)) * Pow2(15 - k)])

\* floor(a / 2^n)
BigShr(a, n) ==
  IF n \div 15 >= Len(a) THEN <<>>
  ELSE BigShrBits(SubSeq(a, (n \div 15) + 1, Len(a)), n % 15)

\* the number of binary digits of n, for n below 2^15
SmallBitLen(n) == MinOf({k \in 0..15 : Pow2(k) > n})

\* the number of binary digits of a
BigBitLen(a) == IF a = <<>> THEN 0 ELSE 15 * (Len(a) - 1) + SmallBitLen(a[Len(a)])

\* the number of zero bits at the low end of a, for a > 0
LowZeroBits(a, i) == 15 * (i - 1) + MaxOf({k \in 0..14 : a[i] % Pow2(k) = 0})

BigLowZeroBits(a) == LowZeroBits(a, MinOf({i \in 1..Len(a) : a[i] # 0}))

BigSquare(a) == BigMul(a, a)

\* 10^n, by squaring
RECURSIVE BigPow10(_)
BigPow10(n) ==
  IF n < 5 THEN <<(<<1, 10, 100, 1000, 10000>>)[n + 1]>>
  ELSE IF n % 2 = 0 THEN BigSquare(BigPow10(n \div 2))
  ELSE BigMulSmall(BigSquare(BigPow10(n \div 2)), 10)

\* the natural number of a digit string, by halves
RECURSIVE BigFromDigits(_)
BigFromDigits(d) ==
  IF Len(d) <= 4 THEN BigTrim(<<DigitsToNat(d)>>)
  ELSE BigAdd(BigMul(BigFromDigits(SubSeq(d, 1, Len(d) - (Len(d) \div 2))),
                     BigPow10(Len(d) \div 2)),
              BigFromDigits(SubSeq(d, Len(d) - (Len(d) \div 2) + 1, Len(d))))

\* the quotient (not trimmed) and the remainder of a by k, for 0 < k <= BigBase
RECURSIVE BigDivSmall(_, _)
BigDivSmall(a, k) ==
  IF a = <<>> THEN [q |-> <<>>, r |-> 0]
  ELSE LET hi == BigDivSmall(Tail(a), k)
           cur == hi.r * BigBase + a[1]
       IN [q |-> <<cur \div k>> \o hi.q, r |-> cur % k]

\* the decimal digits of a, for a of a few limbs
RECURSIVE BigToDigits(_)
BigToDigits(a) ==
  IF a = <<>> THEN <<>>
  ELSE BigToDigits(BigTrim(BigDivSmall(a, 10).q)) \o <<DigitSeq[BigDivSmall(a, 10).r + 1]>>

\* the largest q in lo..hi with q * d <= n, given that lo * d <= n
RECURSIVE QuotientLimb(_, _, _, _)
QuotientLimb(n, d, lo, hi) ==
  IF lo = hi THEN lo
  ELSE IF BigCmp(BigMulSmall(d, (lo + hi + 1) \div 2), n) <= 0
       THEN QuotientLimb(n, d, (lo + hi + 1) \div 2, hi)
       ELSE QuotientLimb(n, d, lo, ((lo + hi + 1) \div 2) - 1)

\* The quotient and the remainder of n by d, for a quotient below BigBase^(j+1): its
\* limbs from the highest down, each after those of acc
RECURSIVE BigDivLimbs(_, _, _, _)
BigDivStep(n, d, j, acc, q) ==
  BigDivLimbs(BigSub(n, BigMulSmall(BigShlLimbs(d, j), q)), d, j - 1, <<q>> \o acc)

BigDivLimbs(n, d, j, acc) ==
  IF j < 0 THEN [q |-> BigTrim(acc), r |-> n]
  ELSE BigDivStep(n, d, j, acc, QuotientLimb(n, BigShlLimbs(d, j), 0, BigBase - 1))

FNan == [class |-> "nan"]

FInf(neg) == [class |-> "inf", neg |-> neg]

FFinite(neg, digits, exp) == [class |-> "finite", neg |-> neg, digits |-> digits, exp |-> exp]

FZero(neg) == FFinite(neg, <<>>, 0)

IsZeroF64(f) == f.class = "finite" /\ f.digits = <<>>

\* m * 2^e with every factor two of m moved into the exponent
OddForm(neg, m, e) ==
  FFinite(neg, BigToDigits(BigShr(m, BigLowZeroBits(m))), e + BigLowZeroBits(m))

\* the f64 m * 2^e, m of at most 53 bits after rounding: infinite from 2^1024 on
FromMantissa(neg, m, e) ==
  IF m = <<>> THEN FZero(neg)
  ELSE IF BigBitLen(m) + e > 1024 THEN FInf(neg)
  ELSE OddForm(neg, m, e)

\* (q + a fraction) * 2^e0 without its last drop bits, rounded to nearest, ties to
\* even; sticky tells that the fraction is not zero
RoundBits(neg, q, sticky, drop, e0) ==
  LET m0 == BigShr(q, drop)
      c == BigCmp(BigSub(q, BigShl(m0, drop)), BigShl(<<1>>, drop - 1))
      up == c > 0 \/ (c = 0 /\ (sticky \/ (m0 # <<>> /\ m0[1] % 2 = 1)))
  IN FromMantissa(neg, IF up THEN BigAdd(m0, <<1>>) ELSE m0, e0 + drop)

\* the quotient q of n by d has 55 or 56 bits; 53 of them are kept, fewer below the
\* smallest normal number (the last bit of an f64 is never below 2^-1074)
RoundQuotient(neg, qr, e0) ==
  LET lq == BigBitLen(qr.q)
      drop == IF lq - 53 >= -1074 - e0 THEN lq - 53 ELSE -1074 - e0
  IN IF drop > lq + 1 THEN FZero(neg) ELSE RoundBits(neg, qr.q, qr.r # <<>>, drop, e0)

\* the f64 nearest to (a / b) * 2^x, for naturals a > 0 and b > 0
RoundRatio(neg, a, b, x) ==
  LET s == 55 - (BigBitLen(a) - BigBitLen(b))
  IN RoundQuotient(neg,
                   BigDivLimbs(IF s >= 0 THEN BigShl(a, s) ELSE a,
                              IF s >= 0 THEN b ELSE BigShl(b, -s), 3, <<>>),
                   x - s)

\* The f64 nearest to sig * 10^exp, sig a digit string without leading zeros: the
\* result of a correctly rounded conversion.  Decimals of 10^310 and more are
\* infinite and those below 10^-325 are zero whatever their digits.
RoundF64(neg, sig, exp) ==
  IF sig = <<>> THEN FZero(neg)
  ELSE IF exp + Len(sig) > 310 THEN FInf(neg)
  ELSE IF exp + Len(sig) < -325 THEN FZero(neg)
  ELSE RoundRatio(neg, BigMul(BigFromDigits(sig), BigPow10(IF exp > 0 THEN exp ELSE 0)),
                  BigPow10(IF exp < 0 THEN -exp ELSE 0), 0)

\* The f64 nearest to 0.all * 10^scale
DecimalToF64(neg, all, scale) == RoundF64(neg, StripLeadingZeros(all), scale - Len(all))

\* f64 * f64
MulF64(a, b) ==
  IF IsZeroF64(a) \/ IsZeroF64(b) THEN FZero(a.neg # b.neg)
  ELSE RoundRatio(a.neg # b.neg, BigMul(BigFromDigits(a.digits), BigFromDigits(b.digits)),
                  <<1>>, a.exp + b.exp)

\* f64 / f64, for a divisor that is not zero
DivF64(a, b) ==
  IF IsZeroF64(a) THEN FZero(a.neg # b.neg)
  ELSE RoundRatio(a.neg # b.neg, BigFromDigits(a.digits), BigFromDigits(b.digits),
                  a.exp - b.exp)

\* The parts of a decimal text, read from the left: the integer digits, a point and
\* the fraction digits, an exponent mark with its sign and digits, and the rest.
Scanned(intd, hasDot, frac, hasExp, expNeg, expd, rest) ==
  [intd |-> intd, hasDot |-> hasDot, frac |-> frac, hasExp |-> hasExp,
   expNeg |-> expNeg, expd |-> expd, rest |-> rest]

ScanExpDigits(intd, hasDot, frac, expNeg, r5) ==
  Scanned(intd, hasDot, frac, TRUE, expNeg,
          SubSeq(r5, 1, DigitPrefixLen(r5)), DropFirst(r5, DigitPrefixLen(r5)))

ScanExpMark(intd, hasDot, frac, r3) ==
  IF r3 # <<>> /\ r3[1] \in {"e", "E"}
  THEN ScanExpDigits(intd, hasDot, frac, IsNegative(Tail(r3)), Unsigned(Tail(r3)))
  ELSE Scanned(intd, hasDot, frac, FALSE, FALSE, <<>>, r3)

ScanFraction(intd, r2) ==
  ScanExpMark(intd, TRUE, SubSeq(r2, 1, DigitPrefixLen(r2)), DropFirst(r2, DigitPrefixLen(r2)))

ScanPoint(intd, r1) ==
  IF r1 # <<>> /\ r1[1] = "." THEN ScanFraction(intd, Tail(r1))
  ELSE ScanExpMark(intd, FALSE, <<>>, r1)

ScanDecimal(r) == ScanPoint(SubSeq(r, 1, DigitPrefixLen(r)), DropFirst(r, DigitPrefixLen(r)))

\* the exponent a scanned decimal carries
ScannedExp(d) ==
  IF ~d.hasExp THEN 0
  ELSE IF d.expNeg THEN -SaturatedNat(d.expd) ELSE SaturatedNat(d.expd)

\* the f64 of a scanned decimal
ScannedF64(neg, d) == DecimalToF64(neg, d.intd \o d.frac, Len(d.intd) + ScannedExp(d))

\* The decimal syntax of f64::from_str after the sign: digits, an optional point and
\* digits (at least one digit in all), an optional exponent e|E [+|-] digits.
DecimalOf(neg, d) ==
  IF d.intd = <<>> /\ d.frac = <<>> THEN Fail
  ELSE IF d.hasExp /\ d.expd = <<>> THEN Fail
  ELSE IF d.rest # <<>> THEN Fail
  ELSE Ok(ScannedF64(neg, d))

ParseDecimal(neg, r) == DecimalOf(neg, ScanDecimal(r))

\* inf, infinity or nan in any case
SpecialF64(neg, low) ==
  IF low = <<"n","a","n">> THEN Ok(FNan)
  ELSE IF low = <<"i","n","f">> \/ low = <<"i","n","f","i","n","i","t","y">> THEN Ok(FInf(neg))
  ELSE Fail

DecimalOrSpecial(neg, r, dec) ==
  IF r = <<>> THEN Fail
  ELSE IF dec.ok THEN dec
  ELSE SpecialF64(neg, to_lowercase(r))

\* f64::from_str: an optional sign, then a decimal, or inf, infinity or nan in any case
parse_f64(s) == DecimalOrSpecial(IsNegative(s), Unsigned(s), ParseDecimal(IsNegative(s), Unsigned(s)))

\* json!(n) of an f64: Number::from_f64 has no Number for nan and the infinities,
\* and the Value is then Null
F64ToValue(f) ==
  IF f.class = "finite" THEN VFloat(f.neg, f.digits, f.exp) ELSE VNull

(***************************************************************************)
(* serde_json::from_str                                                    *)
(***************************************************************************)
JFail == [ok |-> FALSE]

JOk(v, next) == [ok |-> TRUE, v |-> v, next |-> next]

IsWs(c) == c \in {" ", "\t", "\n", "\r"}

RECURSIVE SkipWs(_, _)
SkipWs(s, i) == IF i <= Len(s) /\ IsWs(s[i]) THEN SkipWs(s, i + 1) ELSE i

\* the text lit at position i of s
LiteralAt(s, i, lit) == i + Len(lit) - 1 <= Len(s) /\ SubSeq(s, i, i + Len(lit) - 1) = lit

\* The digits of d appended to the u64 sig one by one, up to the first that would
\* leave u64: the significand then, and how many digits were taken.
OneMoreUsed(t) == [sig |-> t.sig, used |-> t.used + 1]

RECURSIVE TakeDigitsU64(_, _)
TakeDigitsU64(sig, d) ==
  IF d = <<>> \/ ~MagLeq(Magnitude(sig \o <<d[1]>>), U64MaxMag) THEN [sig |-> sig, used |-> 0]
  ELSE OneMoreUsed(TakeDigitsU64(Magnitude(sig \o <<d[1]>>), Tail(d)))

\* significand as f64
U64ToF64(neg, sig) ==
  IF sig = <<"0">> THEN FZero(neg) ELSE RoundRatio(neg, BigFromDigits(sig), <<1>>, 0)

\* serde_json's table POW10: the f64 literals 1e0 .. 1e308
POW10(n) == RoundRatio(FALSE, BigPow10(n), <<1>>, 0)

\* serde_json's f64_from_parts: the significand, as an f64, is multiplied or divided
\* by the f64 power of ten, each operation rounding; an exponent below -308 divides
\* by 1e308 first, an infinite product is an error.
RECURSIVE f64_from_parts(_, _)
f64_from_parts(f, exponent) ==
  IF exponent >= 0 /\ exponent <= 308
  THEN (IF MulF64(f, POW10(exponent)).class = "inf" THEN Fail
        ELSE Ok(MulF64(f, POW10(exponent))))
  ELSE IF exponent < 0 /\ exponent >= -308 THEN Ok(DivF64(f, POW10(-exponent)))
  ELSE IF IsZeroF64(f) THEN Ok(f)
  ELSE IF exponent >= 0 THEN Fail
  ELSE f64_from_parts(DivF64(f, POW10(308)), exponent + 308)

\* The f64 of a scanned JSON number.  The digits before and after the point are
\* taken into a u64 while they fit; an integer digit left out raises the exponent by
\* one, a fraction digit taken lowers it by one, a fraction digit left out is dropped.
JsonF64Of(neg, d, int, frac) ==
  f64_from_parts(U64ToF64(neg, frac.sig),
                 (Len(d.intd) - int.used) - frac.used + ScannedExp(d))

JsonF64Taken(neg, d, int) == JsonF64Of(neg, d, int, TakeDigitsU64(int.sig, d.frac))

JsonF64(neg, d) == JsonF64Taken(neg, d, TakeDigitsU64(<<"0">>, d.intd))

\* A JSON number at position i: -? (0 | [1-9][0-9]*) (. [0-9]+)? ([eE] [+-]? [0-9]+)?
\* An integer within u64 (i64 when negative) is an integer Number, -0 and every other
\* number a float; a float out of range is an error.
JsonNumberOf(neg, d, mag, f, next) ==
  IF d.intd = <<>> \/ (Len(d.intd) > 1 /\ d.intd[1] = "0") THEN JFail
  ELSE IF d.hasDot /\ d.frac = <<>> THEN JFail
  ELSE IF d.hasExp /\ d.expd = <<>> THEN JFail
  ELSE IF ~d.hasDot /\ ~d.hasExp /\ ~neg /\ MagLeq(mag, U64MaxMag) THEN JOk(VInt(FALSE, mag), next)
  ELSE IF ~d.hasDot /\ ~d.hasExp /\ neg /\ mag # <<"0">> /\ MagLeq(mag, I64MinMag)
       THEN JOk(VInt(TRUE, mag), next)
  ELSE IF ~f.ok THEN JFail
  ELSE JOk(F64ToValue(f.v), next)

JsonNumberScanned(s, neg, d) ==
  JsonNumberOf(neg, d, Magnitude(d.intd), JsonF64(neg, d), Len(s) - Len(d.rest) + 1)

ParseJsonNumber(s, i) ==
  JsonNumberScanned(s, s[i] = "-", ScanDecimal(DropFirst(s, IF s[i] = "-" THEN i ELSE i - 1)))

\* the characters U+0020 to U+005F
AsciiLow ==
  <<" ", "!", "\"", "#", "$", "%", "&", "'", "(", ")", "*", "+", ",", "-", ".", "/",
    "0", "1", "2", "3", "4", "5", "6", "7", "8", "9", ":", ";", "<", "=", ">", "?",
    "@", "A", "B", "C", "D", "E", "F", "G", "H", "I", "J", "K", "L", "M", "N", "O",
    "P", "Q", "R", "S", "T", "U", "V", "W", "X", "Y", "Z", "[", "\\", "]", "^", "_">>

\* the characters U+0061 to U+007E
AsciiHigh ==
  <<"a", "b", "c", "d", "e", "f", "g", "h", "i", "j", "k", "l", "m", "n", "o", "p",
    "q", "r", "s", "t", "u", "v", "w", "x", "y", "z", "{", "|", "}", "~">>

HexDigits == <<"0","1","2","3","4","5","6","7","8","9","A","B","C","D","E","F">>

RECURSIVE HexOf(_)
HexOf(n) == IF n < 16 THEN HexDigits[n + 1] ELSE HexOf(n \div 16) \o HexDigits[(n % 16) + 1]

\* The character of a code point.  A character is a one-character string when it is
\* printable ASCII other than the grave accent, a tab, a line feed, a form feed or a
\* carriage return, and the string U+XXXX of its code point otherwise.
CharOf(n) ==
  IF n >= 32 /\ n <= 95 THEN AsciiLow[n - 31]
  ELSE IF n >= 97 /\ n <= 126 THEN AsciiHigh[n - 96]
  ELSE IF n = 9 THEN "\t"
  ELSE IF n = 10 THEN "\n"
  ELSE IF n = 12 THEN "\f"
  ELSE IF n = 13 THEN "\r"
  ELSE IF n < 16 THEN "U+000" \o HexOf(n)
  ELSE IF n < 256 THEN "U+00" \o HexOf(n)
  ELSE IF n < 4096 THEN "U+0" \o HexOf(n)
  ELSE "U+" \o HexOf(n)

\* the characters below U+0020, which a JSON string cannot hold unescaped
ControlChars == {CharOf(n) : n \in 0..31}

IsHexDigit(c) == CharToUpper(c) \in {HexDigits[k] : k \in 1..16}

HexVal(c) == IndexOf(CharToUpper(c), HexDigits) - 1

\* the number written by the four hexadecimal digits at position i, -1 when they are
\* not four hexadecimal digits
Hex4At(s, i) ==
  IF i + 3 <= Len(s) /\ \A k \in 0..3 : IsHexDigit(s[i + k])
  THEN HexVal(s[i]) * 4096 + HexVal(s[i + 1]) * 256 + HexVal(s[i + 2]) * 16 + HexVal(s[i + 3])
  ELSE -1

EFail == [ok |-> FALSE]

EOk(c, next) == [ok |-> TRUE, c |-> c, next |-> next]

\* \uXXXX at position i - 2, XXXX being n1: a low surrogate is an error, a high one
\* takes the low surrogate of a second \uXXXX and gives the character of the pair
UnicodeEscape(s, i, n1, n2) ==
  IF n1 < 0 THEN EFail
  ELSE IF n1 >= 56320 /\ n1 <= 57343 THEN EFail
  ELSE IF n1 >= 55296 /\ n1 <= 56319
       THEN (IF LiteralAt(s, i + 4, <<"\\", "u">>) /\ n2 >= 56320 /\ n2 <= 57343
             THEN EOk(CharOf(65536 + (n1 - 55296) * 1024 + (n2 - 56320)), i + 10)
             ELSE EFail)
  ELSE EOk(CharOf(n1), i + 4)

\* the character of the escape sequence whose backslash is at position i
ParseEscape(s, i) ==
  IF i + 1 > Len(s) THEN EFail
  ELSE IF s[i + 1] \in {"\"", "\\", "/"} THEN EOk(s[i + 1], i + 2)
  ELSE IF s[i + 1] = "b" THEN EOk(CharOf(8), i + 2)
  ELSE IF s[i + 1] = "f" THEN EOk("\f", i + 2)
  ELSE IF s[i + 1] = "n" THEN EOk("\n", i + 2)
  ELSE IF s[i + 1] = "r" THEN EOk("\r", i + 2)
  ELSE IF s[i + 1] = "t" THEN EOk("\t", i + 2)
  ELSE IF s[i + 1] = "u" THEN UnicodeEscape(s, i + 2, Hex4At(s, i + 2), Hex4At(s, i + 8))
  ELSE EFail

\* The characters of a JSON string from position i on, after those of acc, up to the
\* closing quote: an escape sequence gives its character, a character below U+0020
\* is an error.
RECURSIVE ParseJsonChars(_, _, _)
AfterEscape(s, e, acc) == IF e.ok THEN ParseJsonChars(s, e.next, Append(acc, e.c)) ELSE JFail

ParseJsonChars(s, i, acc) ==
  IF i > Len(s) THEN JFail
  ELSE IF s[i] = "\"" THEN JOk(VString(acc), i + 1)
  ELSE IF s[i] = "\\" THEN AfterEscape(s, ParseEscape(s, i), acc)
  ELSE IF s[i] \in ControlChars THEN JFail
  ELSE ParseJsonChars(s, i + 1, Append(acc, s[i]))

\* A JSON string at position i (s[i] is the opening quote)
ParseJsonString(s, i) == ParseJsonChars(s, i + 1, <<>>)

\* Deserializer::new: remaining_depth, the arrays and objects that may still be
\* entered, one inside the other, plus one
RecursionLimit == 128

RECURSIVE ParseJsonValue(_, _, _)
RECURSIVE ParseJsonElements(_, _, _, _)
RECURSIVE ParseJsonMembers(_, _, _, _)

\* the elements of an array from position i on, after those of acc
ParseJsonElements(s, i, acc, remaining_depth) ==
  LET r == ParseJsonValue(s, i, remaining_depth)
      j == SkipWs(s, r.next)
  IN IF ~r.ok THEN JFail
     ELSE IF j > Len(s) THEN JFail
     ELSE IF s[j] = "," THEN ParseJsonElements(s, j + 1, Append(acc, r.v), remaining_depth)
     ELSE IF s[j] = "]" THEN JOk(VArray(Append(acc, r.v)), j + 1)
     ELSE JFail

\* the members of an object from position i on, after those of acc; a repeated key
\* keeps its last value
ParseJsonMembers(s, i, acc, remaining_depth) ==
  LET j == SkipWs(s, i)
      k == ParseJsonString(s, j)
      c == SkipWs(s, k.next)
      r == ParseJsonValue(s, c + 1, remaining_depth)
      d == SkipWs(s, r.next)
  IN IF j > Len(s) \/ s[j] # "\"" THEN JFail
     ELSE IF ~k.ok THEN JFail
     ELSE IF c > Len(s) \/ s[c] # ":" THEN JFail
     ELSE IF ~r.ok THEN JFail
     ELSE IF d > Len(s) THEN JFail
     ELSE IF s[d] = "," THEN ParseJsonMembers(s, d + 1, MapInsert(acc, k.v.s, r.v), remaining_depth)
     ELSE IF s[d] = "}" THEN JOk(VObject(MapInsert(acc, k.v.s, r.v)), d + 1)
     ELSE JFail

\* the JSON value that starts at position i, after white space; entering an array or
\* an object takes one from remaining_depth, and none is entered with nothing left
\* (recursion limit exceeded)
ParseJsonValue(s, i, remaining_depth) ==
  LET j == SkipWs(s, i)
      k == SkipWs(s, j + 1)
  IN IF j > Len(s) THEN JFail
     ELSE IF s[j] = "[" THEN
            (IF remaining_depth - 1 = 0 THEN JFail
             ELSE IF k <= Len(s) /\ s[k] = "]" THEN JOk(VArray(<<>>), k + 1)
             ELSE ParseJsonElements(s, j + 1, <<>>, remaining_depth - 1))
     ELSE IF s[j] = "{" THEN
            (IF remaining_depth - 1 = 0 THEN JFail
             ELSE IF k <= Len(s) /\ s[k] = "}" THEN JOk(VObject(EmptyMap), k + 1)
             ELSE ParseJsonMembers(s, j + 1, EmptyMap, remaining_depth - 1))
     ELSE IF s[j] = "\"" THEN ParseJsonString(s, j)
     ELSE IF LiteralAt(s, j, <<"t","r","u","e">>) THEN JOk(VBool(TRUE), j + 4)
     ELSE IF LiteralAt(s, j, <<"f","a","l","s","e">>) THEN JOk(VBool(FALSE), j + 5)
     ELSE IF LiteralAt(s, j, <<"n","u","l","l">>) THEN JOk(VNull, j + 4)
     ELSE IF s[j] = "-" \/ s[j] \in DigitChars THEN ParseJsonNumber(s, j)
     ELSE JFail

\* a parsed value stands when nothing but white space follows it
Complete(s, r) == IF r.ok /\ SkipWs(s, r.next) > Len(s) THEN Ok(r.v) ELSE Fail

\* serde_json::from_str::<Value>: one value and nothing but white space after it
from_str(s) == Complete(s, ParseJsonValue(s, 1, RecursionLimit))

\* a JSON text read as Vec<Value>: it has to be an array
AsVec(r) == IF r.ok /\ r.v.t = "Array" THEN r ELSE Fail

\* serde_json::from_str::<Vec<Value>>
from_str_vec(s) == AsVec(from_str(s))

(***************************************************************************)
(* Environment::parse_env_value                                            *)
(***************************************************************************)
\* the first reading that succeeds, given the readings of value as bool, i64, f64
\* and JSON
FirstReading(value, b, n, f, json) ==
  IF b.ok THEN VBool(b.v)
  ELSE IF n.ok THEN n.v
  ELSE IF f.ok THEN F64ToValue(f.v)
  ELSE IF starts_with(value, <<"[">>) /\ ends_with(value, <<"]">>) /\ AsVec(json).ok
       THEN AsVec(json).v
  ELSE IF starts_with(value, <<"{">>) /\ ends_with(value, <<"}">>) /\ json.ok THEN json.v
  ELSE VString(value)

parse_env_value(value) ==
  FirstReading(value, parse_bool(value), parse_i64(value), parse_f64(value), from_str(value))

(***************************************************************************)
(* Environment (src/src/environment.rs)                                    *)
(*                                                                         *)
(* An Option<T> is a sequence of at most one element.  The process         *)
(* environment is a function from variable names to raw values.  The order *)
(* in which env::vars() and a HashMap yield their entries is not           *)
(* determined by the program: an operation that iterates takes the order   *)
(* as a parameter, and its outcomes are those of all orders.               *)
(***************************************************************************)
None == <<>>

Some(x) == <<x>>

\* all the orders in which the elements of S can be enumerated
Perms(S) == {f \in [1..Cardinality(S) -> S] : \A i, j \in 1..Cardinality(S) : i # j => f[i] # f[j]}

Range(f) == {f[x] : x \in DOMAIN f}

\* Environment::default()
EnvironmentDefault ==
  [prefix |-> None, separator |-> <<"_">>, case_sensitive |-> FALSE,
   overrides |-> EmptyMap, field_mappings |-> EmptyMap, nested |-> FALSE]

with_prefix(self, prefix) == [self EXCEPT !.prefix = Some(prefix)]

separator(self, sep) == [self EXCEPT !.separator = sep]

case_sensitive(self, sensitive) == [self EXCEPT !.case_sensitive = sensitive]

override_with(self, key, value) == [self EXCEPT !.overrides = MapInsert(@, key, value)]

with_field_mapping(self, field_name, env_key) ==
  [self EXCEPT !.field_mappings = MapInsert(@, field_name, env_key)]

nested(self, flag) == [self EXCEPT !.nested = flag]

build_env_key(self, path) ==
  LET parts == self.prefix \o path
      key == join(parts, self.separator)
  IN IF self.case_sensitive THEN key ELSE to_uppercase(key)

\* std::env::var
EnvVar(env, key) == IF key \in DOMAIN env THEN Some(env[key]) ELSE None

\* a variant of insert_nested: one entry under the joined key
insert_nested_flat(map, parts, value) == MapInsert(map, join(parts, <<"_">>), value)

\* a variant of insert_nested: a segment that holds no Object is left as it is
RECURSIVE insert_nested_kept(_, _, _)
insert_nested_kept(map, parts, value) ==
  IF parts = <<>> THEN map
  ELSE IF Len(parts) = 1 THEN MapInsert(map, parts[1], value)
  ELSE IF parts[1] \notin DOMAIN map
  THEN MapInsert(map, parts[1], VObject(insert_nested_kept(EmptyMap, Tail(parts), value)))
  ELSE IF IsObject(map[parts[1]])
  THEN MapInsert(map, parts[1], VObject(insert_nested_kept(map[parts[1]].o, Tail(parts), value)))
  ELSE map

RECURSIVE insert_nested(_, _, _)
insert_nested(map, parts, value) ==
  IF parts = <<>> THEN map
  ELSE IF Len(parts) = 1 THEN MapInsert(map, parts[1], value)
  ELSE LET key == parts[1]
           nested_map == IF key \in DOMAIN map THEN map[key] ELSE VObject(EmptyMap)
       IN IF IsObject(nested_map)
          THEN MapInsert(map, key, VObject(insert_nested(nested_map.o, Tail(parts), value)))
          ELSE MapInsert(map, key, VObject(insert_nested(EmptyMap, Tail(parts), value)))

\* the prefix as it is compared: upper case unless case sensitive
PrefixStr(self) ==
  IF self.case_sensitive THEN self.prefix[1] ELSE to_uppercase(self.prefix[1])

KeyCheck(self, key) == IF self.case_sensitive THEN key ELSE to_uppercase(key)

\* collect_with_flat_keys, first loop: the flat_map key of environment variable key,
\* None for a variable the prefix filters out
EnvFlatKey(self, key) ==
  IF self.prefix # None
  THEN IF starts_with(KeyCheck(self, key), PrefixStr(self))
       THEN LET trimmed == trim_start_matches(DropFirst(KeyCheck(self, key), Len(PrefixStr(self))),
                                              self.separator)
            IN Some(IF self.nested THEN trimmed ELSE to_lowercase(trimmed))
       ELSE None
  ELSE Some(to_lowercase(key))

\* collect_with_flat_keys, second loop: the flat_map key of an override
OverrideFlatKey(self, override_key) ==
  IF self.prefix # None
  THEN IF starts_with(KeyCheck(self, override_key), PrefixStr(self))
       THEN LET trimmed == trim_start_matches(
                             DropFirst(KeyCheck(self, override_key), Len(PrefixStr(self))),
                             self.separator)
            IN Some(IF self.nested THEN trimmed ELSE to_lowercase(trimmed))
       ELSE None
  ELSE Some(to_lowercase(override_key))

\* a variant of ScanEnvVars: the first variable alone is read
ScanEnvVars_torn(self, env, order, flat_map) ==
  IF order = <<>> \/ EnvFlatKey(self, Head(order)) = None THEN flat_map
  ELSE MapInsert(flat_map, EnvFlatKey(self, Head(order))[1], parse_env_value(env[Head(order)]))

\* the first loop over env::vars(), in the given order
RECURSIVE ScanEnvVars(_, _, _, _)
ScanEnvVars(self, env, order, flat_map) ==
  IF order = <<>> THEN flat_map
  ELSE LET key == Head(order)
           k == EnvFlatKey(self, key)
       IN ScanEnvVars(self, env, Tail(order),
                      IF k # None THEN MapInsert(flat_map, k[1], parse_env_value(env[key]))
                      ELSE flat_map)

\* the second loop over self.overrides, in the given order
RECURSIVE ApplyOverrides(_, _, _)
ApplyOverrides(self, order, flat_map) ==
  IF order = <<>> THEN flat_map
  ELSE LET override_key == Head(order)
           k == OverrideFlatKey(self, override_key)
       IN ApplyOverrides(self, Tail(order),
                         IF k # None
                         THEN MapInsert(flat_map, k[1], parse_env_value(self.overrides[override_key]))
                         ELSE flat_map)

\* a variant of to_lowercase_parts: the components as they are
to_lowercase_parts_kept(parts) == parts

to_lowercase_parts(parts) == [i \in 1..Len(parts) |-> to_lowercase(parts[i])]

\* a variant of Materialize: the first key alone, nested whatever the mode
Materialize_first_nested(self, flat_map, order, result) ==
  IF order = <<>> THEN result
  ELSE insert_nested(result, to_lowercase_parts(split(Head(order), self.separator)),
                     flat_map[Head(order)])

\* a variant of Materialize: the keys of more than one component are left out
RECURSIVE Materialize_single_parts(_, _, _, _)
Materialize_single_parts(self, flat_map, order, result) ==
  IF order = <<>> THEN result
  ELSE Materialize_single_parts(self, flat_map, Tail(order),
                                IF Len(split(Head(order), self.separator)) = 1
                                THEN MapInsert(result, to_lowercase(Head(order)), flat_map[Head(order)])
                                ELSE result)

\* the third loop over flat_map, in the given order
RECURSIVE Materialize(_, _, _, _)
Materialize(self, flat_map, order, result) ==
  IF order = <<>> THEN result
  ELSE LET key == Head(order)
           value == flat_map[key]
           parts == split(key, self.separator)
           lowercase_parts == to_lowercase_parts(parts)
       IN Materialize(self, flat_map, Tail(order),
                      IF self.nested
                      THEN IF Len(parts) = 1
                           THEN MapInsert(result, to_lowercase(key), value)
                           ELSE insert_nested(result, lowercase_parts, value)
                      ELSE MapInsert(result, to_lowercase(key), value))

\* the flat maps the first two loops can leave
FlatMaps(self, env) ==
  {ApplyOverrides(self, o2, ScanEnvVars(self, env, o1, EmptyMap)) :
     o1 \in Perms(DOMAIN env), o2 \in Perms(DOMAIN self.overrides)}

\* Environment::collect_with_flat_keys: the trees it can return
collect_with_flat_keys(self, env) ==
  UNION {{VObject(Materialize(self, fm, o3, EmptyMap)) : o3 \in Perms(DOMAIN fm)} :
           fm \in FlatMaps(self, env)}

\* collect, first loop: the mapped fields, each from its override or else its variable
MappedFields(self, env) ==
  LET has(f) == self.field_mappings[f] \in DOMAIN self.overrides
                  \/ self.field_mappings[f] \in DOMAIN env
  IN [f \in {g \in DOMAIN self.field_mappings : has(g)} |->
        IF self.field_mappings[f] \in DOMAIN self.overrides
        THEN parse_env_value(self.overrides[self.field_mappings[f]])
        ELSE parse_env_value(env[self.field_mappings[f]])]

\* a variant of ScanPrefixed: a prefixed variable overwrites the key it derives
RECURSIVE ScanPrefixed_overwriting(_, _, _, _)
ScanPrefixed_overwriting(self, env, order, result) ==
  IF order = <<>> THEN result
  ELSE LET key == Head(order)
           field_name == to_lowercase(trim_start_matches(
                           DropFirst(KeyCheck(self, key), Len(PrefixStr(self))), self.separator))
       IN ScanPrefixed_overwriting(self, env, Tail(order),
                       IF /\ starts_with(KeyCheck(self, key), PrefixStr(self))
                          /\ key \notin Range(self.field_mappings)
                       THEN MapInsert(result, field_name, parse_env_value(env[key]))
                       ELSE result)

\* collect, second loop: the prefixed variables that are no mapping's target
RECURSIVE ScanPrefixed(_, _, _, _)
ScanPrefixed(self, env, order, result) ==
  IF order = <<>> THEN result
  ELSE LET key == Head(order)
           field_name == to_lowercase(trim_start_matches(
                           DropFirst(KeyCheck(self, key), Len(PrefixStr(self))), self.separator))
       IN ScanPrefixed(self, env, Tail(order),
                       IF /\ starts_with(KeyCheck(self, key), PrefixStr(self))
                          /\ key \notin Range(self.field_mappings)
                          /\ field_name \notin DOMAIN result
                       THEN MapInsert(result, field_name, parse_env_value(env[key]))
                       ELSE result)

\* ConfigSource::collect for Environment: the trees it can return when every read
\* of the call sees the environment env
collect(self, env) ==
  IF DOMAIN self.field_mappings # {}
  THEN IF self.prefix # None
       THEN {VObject(ScanPrefixed(self, env, o, MappedFields(self, env))) : o \in Perms(DOMAIN env)}
       ELSE {VObject(MappedFields(self, env))}
  ELSE collect_with_flat_keys(self, env)

\* ConfigSource::has_value for Environment
has_value(self, env, key) ==
  LET env_key == build_env_key(self, <<key>>)
  IN env_key \in DOMAIN self.overrides \/ EnvVar(env, env_key) # None

\* ConfigSource::get_value for Environment
get_value(self, env, key) ==
  LET env_key == build_env_key(self, <<key>>)
  IN IF env_key \in DOMAIN self.overrides
     THEN Some(parse_env_value(self.overrides[env_key]))
     ELSE IF EnvVar(env, env_key) # None THEN Some(parse_env_value(EnvVar(env, env_key)[1]))
     ELSE None

\* a variant of source_type: the kind of the defaults
source_type_default == "Default"

\* ConfigSource::source_type for Environment
source_type == "Environment"

\* Value::get along a path of keys
RECURSIVE TreeGet(_, _)
TreeGet(v, path) ==
  IF path = <<>> THEN Some(v)
  ELSE IF IsObject(v) /\ path[1] \in DOMAIN v.o THEN TreeGet(v.o[path[1]], Tail(path))
  ELSE None

(***************************************************************************)
(* ConfigBuilder, the merge of the collected trees, and the Cli source.    *)
(* Their code is not part of the sources modelled here: they follow the    *)
(* specification's Merge Engine and Source Ordering sections.              *)
(***************************************************************************)
\* a variant of merge_deep: the later entry replaces the earlier at every top-level key
merge_deep_top(base, other) ==
  IF IsObject(base) /\ IsObject(other)
  THEN VObject([k \in DOMAIN base.o \cup DOMAIN other.o |->
                  IF k \in DOMAIN other.o THEN other.o[k] ELSE base.o[k]])
  ELSE other

\* Deep: two Objects merge entry by entry, anything else is replaced by the later value
RECURSIVE merge_deep(_, _)
merge_deep(base, other) ==
  IF IsObject(base) /\ IsObject(other)
  THEN VObject([k \in DOMAIN base.o \cup DOMAIN other.o |->
                  IF k \in DOMAIN base.o /\ k \in DOMAIN other.o
                  THEN merge_deep(base.o[k], other.o[k])
                  ELSE IF k \in DOMAIN other.o THEN other.o[k] ELSE base.o[k]])
  ELSE other

\* Shallow: every top-level key of the later tree replaces the earlier entry
merge_shallow(base, other) ==
  IF IsObject(base) /\ IsObject(other)
  THEN VObject([k \in DOMAIN base.o \cup DOMAIN other.o |->
                  IF k \in DOMAIN other.o THEN other.o[k] ELSE base.o[k]])
  ELSE other

merge(base, other, strategy) ==
  IF strategy = "Deep" THEN merge_deep(base, other) ELSE merge_shallow(base, other)

\* the trees folded from the left, from the empty Object
RECURSIVE merge_all(_, _)
merge_all(trees, strategy) ==
  IF trees = <<>> THEN VObject(EmptyMap)
  ELSE merge(merge_all(SubSeq(trees, 1, Len(trees) - 1), strategy), trees[Len(trees)], strategy)

\* the precedence of a kind of source, lowest first
priority(kind) ==
  CASE kind = "Default" -> 0
    [] kind = "ConfigFile" -> 1
    [] kind = "Environment" -> 2
    [] kind = "Cli" -> 3

\* a registered source: the Environment source, or a source that holds its tree
EnvSource(env) == [src |-> "env", env |-> env]

TreeSource(kind, tree) == [src |-> "tree", kind |-> kind, tree |-> tree]

SourceType(source) == IF source.src = "env" THEN source_type ELSE source.kind

\* the indices of the sources in the order of the merge: by precedence, and by
\* registration among sources of one kind
MergeOrder(sources) ==
  LET of(p) == SelectSeq([i \in 1..Len(sources) |-> i],
                         LAMBDA i : priority(SourceType(sources[i])) = p)
  IN of(0) \o of(1) \o of(2) \o of(3)

\* ConfigBuilder::new()
ConfigBuilderNew == [sources |-> <<>>, merge_strategy |-> "Deep", validator |-> None]

AddSource(builder_, source) == [builder_ EXCEPT !.sources = Append(@, source)]

with_merge_strategy(builder_, strategy) == [builder_ EXCEPT !.merge_strategy = strategy]

\* ConfigBuilder::validate_with: the hook that inspects the merged tree
validate_with(builder_, validator) == [builder_ EXCEPT !.validator = Some(validator)]

\* a failed build, with the kind of its error
Err(kind) == [ok |-> FALSE, error |-> kind]

\* the hooks a caller supplies: one that accepts every tree, one that rejects every
\* tree, and one that rejects the tree whose name is "x"
Verdict(validator, tree) ==
  CASE validator = "accept" -> TRUE
    [] validator = "reject" -> FALSE
    [] validator = "name_not_x" -> TreeGet(tree, <<<<"n","a","m","e">>>>) # Some(VString(<<"x">>))

\* a variant of after_validation: binding goes on whatever the hook said
after_validation_bind(accepted) == "bind"

\* where a build goes on after the hook has returned
after_validation(accepted) == IF accepted THEN "bind" ELSE "done"

\* Cli::from_args() with its field mappings, collected: the mapped fields whose
\* argument is on the command line
cli_collect(argv, mappings) ==
  VObject([f \in {g \in DOMAIN mappings : mappings[g] \in DOMAIN argv} |->
             parse_env_value(argv[mappings[f]])])

\* the trees the sources can collect, one per source in registration order
RECURSIVE CollectAll(_, _)
CollectAll(sources, env) ==
  IF sources = <<>> THEN {<<>>}
  ELSE LET last == sources[Len(sources)]
       IN {Append(trees, tree) :
             trees \in CollectAll(SubSeq(sources, 1, Len(sources) - 1), env),
             tree \in IF last.src = "env" THEN collect(last.env, env) ELSE {last.tree}}

\* ConfigBuilder::build_value: the collected trees and the merged tree, for every
\* way the sources can collect
build_value(builder_, env) ==
  {[trees |-> trees,
    tree |-> merge_all([n \in 1..Len(builder_.sources) |-> trees[MergeOrder(builder_.sources)[n]]],
                       builder_.merge_strategy)] :
     trees \in CollectAll(builder_.sources, env)}

(***************************************************************************)

(* #[derive(Gonfig)] (src/gonfig_derive/src/lib.rs)                        *)
(*                                                                         *)
(* A struct that derives Gonfig is the record of its options (GonfigOpts), *)
(* of its fields (GonfigField) and of what serde's derive reads from the   *)
(* same declaration (#[serde(default)], #[serde(skip)]); opts maps the     *)
(* name of each struct to that record.  The structs are declared as in     *)
(* tests/nested_complex_scenarios.rs (a chain of three) and in             *)
(* tests/issue_23_both_aliases.rs (two flat structs with allow_config and  *)
(* allow_cli, one with an env_name, one with a skipped field).  Other      *)
(* declarations are edits of these, each edit an operator of its own.      *)
(***************************************************************************)
Field(ident, ty) ==
  [ident |-> ident, ty |-> ty, env_name |-> None, cli_name |-> None, skip_gonfig |-> FALSE,
   skip |-> FALSE, nested |-> FALSE, default |-> None, serde_default |-> FALSE,
   serde_skip |-> FALSE]

TlsConfig ==
  [env_prefix |-> <<"T","L","S">>, allow_cli |-> FALSE, allow_config |-> FALSE, serde_default |-> TRUE,
   fields |-> <<[Field(<<"e","n","a","b","l","e","d">>, "bool") EXCEPT !.default = Some(<<"t","r","u","e">>)],
                [Field(<<"c","e","r","t","_","p","a","t","h">>, "String") EXCEPT !.default = Some(<<".","/","c","e","r","t","s","/","c","e","r","t",".","p","e","m">>)]>>]

HttpConfig ==
  [env_prefix |-> <<"H","T","T","P">>, allow_cli |-> FALSE, allow_config |-> FALSE, serde_default |-> TRUE,
   fields |-> <<[Field(<<"p","o","r","t">>, "u16") EXCEPT !.default = Some(<<"8","0","8","0">>)],
                [Field(<<"t","l","s">>, "TlsConfig") EXCEPT !.nested = TRUE, !.serde_default = TRUE]>>]

AppWithDeepNesting ==
  [env_prefix |-> <<"A","P","P">>, allow_cli |-> FALSE, allow_config |-> FALSE, serde_default |-> FALSE,
   fields |-> <<[Field(<<"h","t","t","p">>, "HttpConfig") EXCEPT !.nested = TRUE, !.serde_default = TRUE],
                [Field(<<"n","a","m","e">>, "String") EXCEPT !.default = Some(<<"a","p","p">>)]>>]

FullFeaturedConfig ==
  [env_prefix |-> <<"B","O","T","H","_","A","L","I","A","S">>, allow_cli |-> TRUE, allow_config |-> TRUE, serde_default |-> FALSE,
   fields |-> <<[Field(<<"h","o","s","t","n","a","m","e">>, "String") EXCEPT !.default = Some(<<"l","o","c","a","l","h","o","s","t">>)],
                [Field(<<"p","o","r","t">>, "u16") EXCEPT !.default = Some(<<"8","0","8","0">>)],
                [Field(<<"l","o","g","_","l","e","v","e","l">>, "String") EXCEPT !.default = Some(<<"i","n","f","o">>),
                                                     !.env_name = Some(<<"L","O","G","_","L","E","V","E","L">>)]>>]

AppConfigWithSkip ==
  [env_prefix |-> <<"A","P","P">>, allow_cli |-> TRUE, allow_config |-> TRUE, serde_default |-> FALSE,
   fields |-> <<[Field(<<"e","n","v","i","r","o","n","m","e","n","t">>, "String") EXCEPT !.default = Some(<<"p","r","o","d","u","c","t","i","o","n">>)],
                [Field(<<"r","u","n","t","i","m","e","_","d","a","t","a">>, "Option<String>") EXCEPT !.skip = TRUE, !.serde_skip = TRUE]>>]

\* the structs as they are declared
Structs ==
  [ty \in {"AppWithDeepNesting", "HttpConfig", "TlsConfig", "FullFeaturedConfig", "AppConfigWithSkip"} |->
     CASE ty = "AppWithDeepNesting" -> AppWithDeepNesting
       [] ty = "HttpConfig" -> HttpConfig
       [] ty = "TlsConfig" -> TlsConfig
       [] ty = "FullFeaturedConfig" -> FullFeaturedConfig
       [] ty = "AppConfigWithSkip" -> AppConfigWithSkip]

\* an edit of the declarations: the chain of three with env_prefix app, http and tls,
\* the empty prefix for a struct declared without env_prefix
WithEnvPrefixes(structs, app, http, tls) ==
  [structs EXCEPT !["AppWithDeepNesting"].env_prefix = app,
                  !["HttpConfig"].env_prefix = http,
                  !["TlsConfig"].env_prefix = tls]

\* an edit of the declarations: AppWithDeepNesting with allow_config and allow_cli
WithAllowConfigAndCli(structs) ==
  [structs EXCEPT !["AppWithDeepNesting"].allow_config = TRUE,
                  !["AppWithDeepNesting"].allow_cli = TRUE]

\* an edit of the declarations: runtime_data with #[skip] and without #[serde(skip)]
WithoutSerdeSkip(structs) ==
  [structs EXCEPT !["AppConfigWithSkip"].fields[2].serde_skip = FALSE]

\* a field is left out by #[skip_gonfig] and by #[skip]
Skips(f) == f.skip_gonfig \/ f.skip

\* str::replace of one character by another
replace(s, from, to) == [i \in 1..Len(s) |-> IF s[i] = from THEN to ELSE s[i]]

\* a variant of loaded_fields: the skipped fields too
loaded_fields_all(o) == o.fields

\* generate_gonfig_impl: the fields that are loaded
loaded_fields(o) == SelectSeq(o.fields, LAMBDA f : ~f.skip_gonfig /\ ~f.skip)

\* a variant of regular_mappings: the nested fields mapped like the regular ones
regular_mappings_nested(o) ==
  [i \in 1..Len(loaded_fields(o)) |->
     [field_name |-> loaded_fields(o)[i].ident,
      custom_env_name |-> loaded_fields(o)[i].env_name,
      cli_key |-> IF loaded_fields(o)[i].cli_name # None THEN loaded_fields(o)[i].cli_name[1]
                  ELSE replace(loaded_fields(o)[i].ident, "_", "-")]]

\* generate_gonfig_impl: (field_name, custom_env_name, cli_key) of the regular fields
regular_mappings(o) ==
  LET regular == SelectSeq(loaded_fields(o), LAMBDA f : ~f.nested)
  IN [i \in 1..Len(regular) |->
        [field_name |-> regular[i].ident,
         custom_env_name |-> regular[i].env_name,
         cli_key |-> IF regular[i].cli_name # None THEN regular[i].cli_name[1]
                     ELSE replace(regular[i].ident, "_", "-")]]

\* generate_gonfig_impl: (field_name, default_value) of the regular fields with a default
default_mappings(o) ==
  LET with_default == SelectSeq(loaded_fields(o), LAMBDA f : ~f.nested /\ f.default # None)
  IN [i \in 1..Len(with_default) |->
        [field_name |-> with_default[i].ident, default_value |-> with_default[i].default[1]]]

\* generate_gonfig_impl: the nested fields, in declaration order
nested_fields(o) == SelectSeq(loaded_fields(o), LAMBDA f : f.nested)

\* variants of composed_prefix: always joined, and the own prefix alone
composed_prefix_joined(parent_prefix, env_prefix) == parent_prefix \o <<"_">> \o env_prefix

composed_prefix_own(parent_prefix, env_prefix) == env_prefix

\* from_gonfig_with_builder_and_parent: parent_prefix + current env_prefix
composed_prefix(parent_prefix, env_prefix) ==
  IF parent_prefix = <<>> THEN env_prefix
  ELSE IF env_prefix = <<>> THEN parent_prefix
  ELSE parent_prefix \o <<"_">> \o env_prefix

\* a variant of mapping_env_key: the prefix left out
mapping_env_key_bare(composed, mapping) ==
  IF mapping.custom_env_name # None THEN mapping.custom_env_name[1]
  ELSE to_uppercase(mapping.field_name)

\* the env_key of a regular field
mapping_env_key(composed, mapping) ==
  IF mapping.custom_env_name # None THEN mapping.custom_env_name[1]
  ELSE IF composed # <<>> THEN composed \o <<"_">> \o to_uppercase(mapping.field_name)
  ELSE to_uppercase(mapping.field_name)

\* the Environment source with the prefix and the field mappings
RECURSIVE env_with_mappings(_, _, _)
env_with_mappings(env, composed, mappings) ==
  IF mappings = <<>> THEN env
  ELSE env_with_mappings(with_field_mapping(env, Head(mappings).field_name,
                                            mapping_env_key(composed, Head(mappings))),
                         composed, Tail(mappings))

gonfig_env(composed, mappings) ==
  env_with_mappings(IF composed # <<>> THEN with_prefix(EnvironmentDefault, composed)
                    ELSE EnvironmentDefault,
                    composed, mappings)

\* the field mappings given to the Cli source
gonfig_cli(mappings) ==
  [f \in {mappings[i].field_name : i \in 1..Len(mappings)} |->
     (CHOOSE m \in Range(mappings) : m.field_name = f).cli_key]

\* T::gonfig_builder(): a new builder with the Environment source under the struct's
\* own env_prefix (no parent composition) and, with allow_cli, the Cli source; no config
\* file and no defaults
gonfig_builder(o, argv) ==
  LET with_env == AddSource(ConfigBuilderNew,
                            EnvSource(gonfig_env(o.env_prefix, regular_mappings(o))))
  IN IF o.allow_cli
     THEN AddSource(with_env, TreeSource("Cli", cli_collect(argv, gonfig_cli(regular_mappings(o)))))
     ELSE with_env

\* a variant of config_file: the last of the default config files that exists
config_file_last(files_) ==
  IF <<"c","o","n","f","i","g",".","j","s","o","n">> \in DOMAIN files_ THEN Some(<<"c","o","n","f","i","g",".","j","s","o","n">>)
  ELSE IF <<"c","o","n","f","i","g",".","y","a","m","l">> \in DOMAIN files_ THEN Some(<<"c","o","n","f","i","g",".","y","a","m","l">>)
  ELSE IF <<"c","o","n","f","i","g",".","t","o","m","l">> \in DOMAIN files_ THEN Some(<<"c","o","n","f","i","g",".","t","o","m","l">>)
  ELSE None

\* the first of the default config files that exists
config_file(files) ==
  IF <<"c","o","n","f","i","g",".","t","o","m","l">> \in DOMAIN files THEN Some(<<"c","o","n","f","i","g",".","t","o","m","l">>)
  ELSE IF <<"c","o","n","f","i","g",".","y","a","m","l">> \in DOMAIN files THEN Some(<<"c","o","n","f","i","g",".","y","a","m","l">>)
  ELSE IF <<"c","o","n","f","i","g",".","j","s","o","n">> \in DOMAIN files THEN Some(<<"c","o","n","f","i","g",".","j","s","o","n">>)
  ELSE None

\* the defaults: each parsed as JSON, or else the string
defaults_json(default_values) ==
  [f \in {default_values[i].field_name : i \in 1..Len(default_values)} |->
     LET d == (CHOOSE m \in Range(default_values) : m.field_name = f).default_value
     IN IF from_str(d).ok THEN from_str(d).v ELSE VString(d)]

RECURSIVE remove_all(_, _)
remove_all(map, fields) ==
  IF fields = <<>> THEN map ELSE remove_all(MapRemove(map, Head(fields).ident), Tail(fields))


\* Default::default() of a field type
RECURSIVE default_value(_, _)
default_value(ty, structs) ==
  CASE ty = "String" -> VString(<<>>)
    [] ty = "Option<String>" -> VNull
    [] ty = "u16" -> VInt(FALSE, <<"0">>)
    [] ty = "bool" -> VBool(FALSE)
    [] OTHER -> VObject([f \in {structs[ty].fields[i].ident : i \in 1..Len(structs[ty].fields)} |->
                           default_value((CHOOSE g \in Range(structs[ty].fields) : g.ident = f).ty,
                                         structs)])

\* #[derive(Deserialize)], visit_map: the field g of the struct o, of which the map has
\* no entry
missing_field(o, g, structs) ==
  IF g.serde_default \/ o.serde_default THEN Ok(default_value(g.ty, structs))
  ELSE IF g.ty = "Option<String>" THEN Ok(VNull)
  ELSE Fail

\* #[derive(Deserialize)], visit_seq: the field g of the struct o, for which the
\* sequence has no element left
missing_element(o, g, structs) ==
  IF g.serde_default \/ o.serde_default THEN Ok(default_value(g.ty, structs)) ELSE Fail

\* serde_json::from_value into a field type.  A struct is deserialized by serde's
\* derive, which knows #[serde(..)] and nothing of #[skip], #[skip_gonfig] or
\* #[gonfig(..)]: from an Object each field takes the entry of its name (other entries
\* are ignored), from an Array the fields take the elements in declaration order (an
\* element too many is an error), and a field with #[serde(skip)] takes its default and
\* no entry or element.
RECURSIVE from_value(_, _, _)
from_value(ty, value, structs) ==
  CASE ty = "String" -> IF value.t = "String" THEN Ok(value) ELSE Fail
    [] ty = "Option<String>" -> IF value.t \in {"Null", "String"} THEN Ok(value) ELSE Fail
    [] ty = "u16" -> IF value.t = "Number" /\ value.kind = "int" /\ ~value.neg
                        /\ MagLeq(value.mag, <<"6","5","5","3","5">>)
                     THEN Ok(value) ELSE Fail
    [] ty = "bool" -> IF value.t = "Bool" THEN Ok(value) ELSE Fail
    [] OTHER ->
         LET o == structs[ty]
             position(i) == Cardinality({j \in 1..i : ~o.fields[j].serde_skip})
             taken == position(Len(o.fields))
             from_map(g) ==
               IF g.ident \in DOMAIN value.o THEN from_value(g.ty, value.o[g.ident], structs)
               ELSE missing_field(o, g, structs)
             from_seq(i) ==
               IF position(i) <= Len(value.a)
               THEN from_value(o.fields[i].ty, value.a[position(i)], structs)
               ELSE missing_element(o, o.fields[i], structs)
             bound == [i \in 1..Len(o.fields) |->
                         IF o.fields[i].serde_skip THEN Ok(default_value(o.fields[i].ty, structs))
                         ELSE IF value.t = "Object" THEN from_map(o.fields[i])
                         ELSE from_seq(i)]
         IN IF value.t \notin {"Object", "Array"} THEN Fail
            ELSE IF value.t = "Array" /\ Len(value.a) > taken THEN Fail
            ELSE IF \A i \in 1..Len(o.fields) : bound[i].ok
            THEN Ok(VObject([f \in {o.fields[i].ident : i \in 1..Len(o.fields)} |->
                               bound[CHOOSE i \in 1..Len(o.fields) : o.fields[i].ident = f].v]))
            ELSE Fail

\* a variant of replace_nested: the deserialized result kept as it is
replace_nested_kept(result, children) == result

\* result.field = child, for every nested field
replace_nested(result, children) ==
  VObject([f \in DOMAIN result.o |-> IF f \in DOMAIN children THEN children[f] ELSE result.o[f]])

(***************************************************************************)
(* State                                                                   *)
(***************************************************************************)
VARIABLES
  raw,      \* the string handed to parse_env_value
  parsed,   \* Option: the Value parse_env_value returned
  environ,  \* the process environment: variable name -> raw value
  args,     \* the command line: argument name -> raw value
  files,    \* the config files of the working directory: path -> content
  opts,     \* the structs that derive Gonfig: name -> options and fields
  self,     \* the Environment source under construction
  builder,  \* the ConfigBuilder under construction
  stack,    \* the calls of from_gonfig_with_builder_and_parent in progress, innermost last
  ret       \* what the last call returned

vars == <<raw, parsed, environ, args, files, opts, self, builder, stack, ret>>

\* what the program is given and does not change
given == <<args, files, opts>>

NoCall == [op |-> "none"]

ParseIdle == raw = <<>> /\ parsed = None

EnvIdle == self = EnvironmentDefault

BuildIdle == builder = ConfigBuilderNew

GonfigIdle == stack = <<>> /\ opts = EmptyMap

Empty == environ = EmptyMap /\ ret = NoCall

(***************************************************************************)
(* parse_env_value on its own                                              *)
(***************************************************************************)
MaxRawLen == 3

RawAlphabet == {"0", "1", ".", "-", "e", "[", "]", ","}

RawSamples ==
  {<<"t","r","u","e">>, <<"f","a","l","s","e">>, <<"T","r","u","e">>, <<"1",".","0",".","0">>, <<"[","1",",","2",",","3","]">>, <<"0",".","0",".","0",".","0">>, <<"h","e","l","l","o">>,
   <<"n","a","n">>, <<"i","n","f">>, <<"-","i","n","f","i","n","i","t","y">>, <<"1","e","9","9","9">>, <<"1","e","3","0","8">>, <<"+","5">>, <<"-","0">>, <<"-","0",".","0">>,
   <<"9","2","2","3","3","7","2","0","3","6","8","5","4","7","7","5","8","0","7">>, <<"9","2","2","3","3","7","2","0","3","6","8","5","4","7","7","5","8","0","8">>, <<"-","9","2","2","3","3","7","2","0","3","6","8","5","4","7","7","5","8","0","8">>,
   <<"{","}">>, <<"{","\"","a","\"",":","1","}">>, <<"{","\"","a","\"",":","{","\"","b","\"",":","[","1",",","\"","x","\"","]","}","}">>, <<"[","\"","a","\"",",","\"","b","\"","]">>, <<"[","t","r","u","e",",","n","u","l","l","]">>,
   <<"1",".","7","9","7","6","9","3","1","3","4","8","6","2","3","1","5","8","e","3","0","8">>, <<"1",".","7","9","7","6","9","3","1","3","4","8","6","2","3","1","5","9","e","3","0","8">>, <<"[","3","e","2","3","]">>, <<"[","1","e","-","2","3","]">>,
   <<"[","\"","a","\\","n","b","\"","]">>, <<"[","\"","\\","u","0","0","4","1","\"","]">>, <<"[","\"","\f","\"","]">>,
   <<"[","1","e","9","9","9","]">>, <<"{","a",":","1","}">>, <<"[","0","1","]">>, <<"[","1",","," ","2","]">>, <<"[","1",",","2">>, <<"{","\"","a","\"",":","1","}","x">>}

RawInputs == UNION {[1..n -> RawAlphabet] : n \in 0..MaxRawLen} \cup RawSamples

InitParse ==
  /\ raw \in RawInputs /\ parsed = None
  /\ args = EmptyMap /\ files = EmptyMap
  /\ Empty /\ EnvIdle /\ BuildIdle /\ GonfigIdle

ParseEnvValue ==
  /\ parsed = None
  /\ parsed' = Some(parse_env_value(raw))
  /\ UNCHANGED <<raw, environ, given, self, builder, stack, ret>>

NextParse == ParseEnvValue

SpecParse == InitParse /\ [][NextParse]_vars

(***************************************************************************)
(* The Environment source in a program of one thread: configuration,       *)
(* environment, then one call; collect() takes its reads one after the     *)
(* other, and nothing changes the environment between them                 *)
(***************************************************************************)
MaxVars == 2

MaxOverrides == 1

MaxMappings == 1

EnvNames ==
  {<<"A","P","P","_","P","O","R","T">>, <<"a","p","p","_","p","o","r","t">>, <<"A","P","P","_","A">>, <<"A","P","P","_","A","_","B">>, <<"P","O","R","T">>, <<"D","B">>,
   <<"A","P","P","P","O","R","T">>, <<"A","P","P","_","_","X">>}

EnvValues == {<<"1">>, <<"x">>}

\* texts that read as a JSON object, and the variable that is given them
ObjectValues == {<<"{","\"","b","\"",":","1","}">>, <<"{","}">>}

ObjectNames == {<<"A","P","P","_","A">>}

Prefixes == {<<"A","P","P">>}

Separators == {<<"_">>}

OverrideKeys == {<<"A","P","P","_","P","O","R","T">>, <<"P","O","R","T">>}

OverrideValues == {<<"2">>}

MappedFieldNames == {<<"d","b">>, <<"a">>}

MappingTargets == {<<"D","B">>, <<"A","P","P","_","A">>}

LookupKeys == {<<"p","o","r","t">>, <<"a">>}

InitEnv ==
  /\ ParseIdle
  /\ args = EmptyMap /\ files = EmptyMap
  /\ Empty /\ EnvIdle /\ BuildIdle /\ GonfigIdle

\* nothing has been called yet
Configuring == ret = NoCall /\ stack = <<>>

\* std::env::set_var
SetVar(name, value) ==
  /\ Configuring
  /\ Cardinality(DOMAIN environ \cup {name}) <= MaxVars
  /\ environ' = MapInsert(environ, name, value)
  /\ UNCHANGED <<raw, parsed, given, self, builder, stack, ret>>

\* std::env::remove_var
RemoveVar(name) ==
  /\ Configuring
  /\ name \in DOMAIN environ
  /\ environ' = MapRemove(environ, name)
  /\ UNCHANGED <<raw, parsed, given, self, builder, stack, ret>>

WithPrefix(prefix) ==
  /\ Configuring
  /\ self' = with_prefix(self, prefix)
  /\ UNCHANGED <<raw, parsed, environ, given, builder, stack, ret>>

Separator(sep) ==
  /\ Configuring
  /\ self' = separator(self, sep)
  /\ UNCHANGED <<raw, parsed, environ, given, builder, stack, ret>>

CaseSensitive(sensitive) ==
  /\ Configuring
  /\ self' = case_sensitive(self, sensitive)
  /\ UNCHANGED <<raw, parsed, environ, given, builder, stack, ret>>

OverrideWith(key, value) ==
  /\ Configuring
  /\ Cardinality(DOMAIN self.overrides \cup {key}) <= MaxOverrides
  /\ self' = override_with(self, key, value)
  /\ UNCHANGED <<raw, parsed, environ, given, builder, stack, ret>>

WithFieldMapping(field_name, env_key) ==
  /\ Configuring
  /\ Cardinality(DOMAIN self.field_mappings \cup {field_name}) <= MaxMappings
  /\ self' = with_field_mapping(self, field_name, env_key)
  /\ UNCHANGED <<raw, parsed, environ, given, builder, stack, ret>>

Nested(flag) ==
  /\ Configuring
  /\ self' = nested(self, flag)
  /\ UNCHANGED <<raw, parsed, environ, given, builder, stack, ret>>

\* the innermost call
Top == stack[Len(stack)]

\* the innermost call is at pc
At(pc) == stack # <<>> /\ Top.pc = pc

\* the innermost call goes on as frame
Step(frame) ==
  /\ stack' = [stack EXCEPT ![Len(stack)] = frame]
  /\ UNCHANGED <<raw, parsed, environ, given, self, builder, ret>>

(***************************************************************************)
(* collect() read by read: each env::var of a mapped field and the one     *)
(* env::vars() are reads of the environment as it is at that moment, and   *)
(* another thread can set and remove variables in between                  *)
(***************************************************************************)
MaxMutations == 2

\* collect() is called: the field mappings will be visited in some order
CollectCall ==
  /\ Configuring
  /\ \E order \in Perms(DOMAIN self.field_mappings) :
        stack' = <<[op |-> "collect", pc |-> IF order = <<>> THEN "vars" ELSE "mapped",
                    todo |-> order, result |-> EmptyMap, instants |-> <<environ>>]>>
  /\ UNCHANGED <<raw, parsed, environ, given, self, builder, ret>>

\* collect, first loop, one mapped field: its override, or else env::var(env_key)
CollectMapped ==
  /\ At("mapped") /\ Top.op = "collect"
  /\ LET field_name == Head(Top.todo)
         one == [self EXCEPT !.field_mappings = field_name :> self.field_mappings[field_name]]
     IN Step([Top EXCEPT !.result = MappedFields(one, environ) @@ @,
                         !.todo = Tail(@),
                         !.pc = IF Tail(Top.todo) = <<>> THEN "vars" ELSE "mapped"])

\* collect, second loop, or collect_with_flat_keys: env::vars(), and the tree returned
CollectVars ==
  /\ At("vars") /\ Top.op = "collect"
  /\ \E tree \in IF DOMAIN self.field_mappings = {} THEN collect_with_flat_keys(self, environ)
                 ELSE IF self.prefix = None THEN {VObject(Top.result)}
                 ELSE {VObject(ScanPrefixed(self, environ, o, Top.result)) : o \in Perms(DOMAIN environ)} :
        ret' = [op |-> "collect", tree |-> tree, instants |-> Top.instants]
  /\ stack' = <<>>
  /\ UNCHANGED <<raw, parsed, environ, given, self, builder>>

\* another thread calls std::env::set_var or remove_var while collect() runs
OtherThread(name, value) ==
  /\ stack # <<>> /\ Top.op = "collect"
  /\ Len(Top.instants) <= MaxMutations
  /\ environ' = IF value = None THEN MapRemove(environ, name) ELSE MapInsert(environ, name, value[1])
  /\ environ' # environ
  /\ Cardinality(DOMAIN environ') <= MaxVars
  /\ stack' = <<[Top EXCEPT !.instants = Append(@, environ')]>>
  /\ UNCHANGED <<raw, parsed, given, self, builder, ret>>

GetValue(key) ==
  /\ Configuring
  /\ ret' = [op |-> "get_value", key |-> key, value |-> get_value(self, environ, key)]
  /\ UNCHANGED <<raw, parsed, environ, given, self, builder, stack>>

HasValue(key) ==
  /\ Configuring
  /\ ret' = [op |-> "has_value", key |-> key, present |-> has_value(self, environ, key)]
  /\ UNCHANGED <<raw, parsed, environ, given, self, builder, stack>>

NextEnv ==
  \/ \E name \in EnvNames, value \in EnvValues : SetVar(name, value)
  \/ \E name \in ObjectNames, value \in ObjectValues : SetVar(name, value)
  \/ \E name \in EnvNames : RemoveVar(name)
  \/ \E prefix \in Prefixes : WithPrefix(prefix)
  \/ \E sep \in Separators : Separator(sep)
  \/ \E sensitive \in BOOLEAN : CaseSensitive(sensitive)
  \/ \E key \in OverrideKeys, value \in OverrideValues : OverrideWith(key, value)
  \/ \E field_name \in MappedFieldNames, env_key \in MappingTargets :
        WithFieldMapping(field_name, env_key)
  \/ \E flag \in BOOLEAN : Nested(flag)
  \/ CollectCall
  \/ CollectMapped
  \/ CollectVars
  \/ \E key \in LookupKeys : GetValue(key)
  \/ \E key \in LookupKeys : HasValue(key)

SpecEnv == InitEnv /\ [][NextEnv]_vars

(***************************************************************************)
(* insert_nested on its own: values put at paths of one map, one after     *)
(* the other                                                               *)
(***************************************************************************)
MaxInserts == 3

\* Environment::insert_nested(&mut map, parts, value), on the map the last call left
InsertNested(parts, value) ==
  /\ stack = <<>>
  /\ ret = NoCall \/ (ret.op = "insert_nested" /\ ret.n < MaxInserts)
  /\ LET map == IF ret = NoCall THEN EmptyMap ELSE ret.after
     IN ret' = [op |-> "insert_nested", n |-> IF ret = NoCall THEN 1 ELSE ret.n + 1,
                before |-> map, parts |-> parts, value |-> value,
                after |-> insert_nested(map, parts, value)]
  /\ UNCHANGED <<raw, parsed, environ, given, self, builder, stack>>

NextInsert ==
  \E parts \in {<<>>, <<<<"a">>>>, <<<<"b">>>>, <<<<"a">>, <<"b">>>>, <<<<"a">>, <<"b">>, <<"c">>>>, <<<<"b">>, <<"a">>>>},
     value \in {Num(1), VString(<<"x">>), VObject(<<"c">> :> Num(2))} :
     InsertNested(parts, value)

SpecInsert == InitEnv /\ [][NextInsert]_vars

(***************************************************************************)
(* The world of the builder and of the derived loaders                     *)
(***************************************************************************)
\* the environment variables that can be set, each with the values it can have
GonfigEnv ==
  {<<<<"A","P","P","_","N","A","M","E">>, <<"x">>>>, <<<<"A","P","P","_","H","T","T","P">>, <<"x">>>>,
   <<<<"A","P","P","_","H","T","T","P","_","P","O","R","T">>, <<"1">>>>, <<<<"A","P","P","_","H","T","T","P","_","P","O","R","T">>, <<"x">>>>, <<<<"H","T","T","P","_","P","O","R","T">>, <<"2">>>>,
   <<<<"A","P","P","_","P","O","R","T">>, <<"3">>>>, <<<<"P","O","R","T">>, <<"4">>>>,
   <<<<"A","P","P","_","H","T","T","P","_","T","L","S","_","E","N","A","B","L","E","D">>, <<"f","a","l","s","e">>>>, <<<<"H","T","T","P","_","T","L","S","_","E","N","A","B","L","E","D">>, <<"f","a","l","s","e">>>>,
   <<<<"A","P","P","_","T","L","S","_","E","N","A","B","L","E","D">>, <<"f","a","l","s","e">>>>, <<<<"T","L","S","_","E","N","A","B","L","E","D">>, <<"f","a","l","s","e">>>>,
   <<<<"A","P","P","_","R","U","N","T","I","M","E","_","D","A","T","A">>, <<"x">>>>, <<<<"L","O","G","_","L","E","V","E","L">>, <<"x">>>>}

\* config.toml: name = "file", [http] port = 3000, [http.tls] enabled = true, cert_path = "f"
FileTree ==
  VObject(<<"n","a","m","e">> :> VString(<<"f","i","l","e">>) @@
          <<"h","t","t","p">> :> VObject(<<"p","o","r","t">> :> Num(3000) @@
                             <<"t","l","s">> :> VObject(<<"e","n","a","b","l","e","d">> :> VBool(TRUE) @@
                                               <<"c","e","r","t","_","p","a","t","h">> :> VString(<<"f">>))))

\* with_defaults(json!({"name": "dflt", "http": {"port": 80, "host": "h"}}))
DefaultsTree ==
  VObject(<<"n","a","m","e">> :> VString(<<"d","f","l","t">>) @@
          <<"h","t","t","p">> :> VObject(<<"p","o","r","t">> :> Num(80) @@ <<"h","o","s","t">> :> VString(<<"h">>)))

ReadableFile(tree) == [ok |-> TRUE, tree |-> tree]

MalformedFile == [ok |-> FALSE]

FilesChoices ==
  {EmptyMap,
   <<"c","o","n","f","i","g",".","t","o","m","l">> :> ReadableFile(FileTree),
   <<"c","o","n","f","i","g",".","y","a","m","l">> :> MalformedFile @@ <<"c","o","n","f","i","g",".","j","s","o","n">> :> ReadableFile(FileTree)}

ArgsChoices == {EmptyMap, <<"n","a","m","e">> :> <<"c","l","i">> @@ <<"r","u","n","t","i","m","e","-","d","a","t","a">> :> <<"c","l","i">>}

(***************************************************************************)
(* The ConfigBuilder used directly: sources registered in any order, then  *)
(* build_value                                                             *)
(***************************************************************************)
MaxSources == 3

BuildEnv ==
  {<<<<"A","P","P","_","N","A","M","E">>, <<"x">>>>, <<<<"A","P","P","_","H","T","T","P">>, <<"x">>>>, <<<<"A","P","P","_","H","T","T","P","_","P","O","R","T">>, <<"1">>>>,
   <<<<"H","T","T","P","_","P","O","R","T">>, <<"2">>>>, <<<<"A","P","P","_","H","T","T","P","_","T","L","S","_","E","N","A","B","L","E","D">>, <<"f","a","l","s","e">>>>}

InitBuild ==
  /\ ParseIdle
  /\ args = (<<"n","a","m","e">> :> <<"c","l","i">>)
  /\ files = (<<"c","o","n","f","i","g",".","t","o","m","l">> :> ReadableFile(FileTree))
  /\ Empty /\ EnvIdle /\ BuildIdle /\ GonfigIdle

Registering == Configuring /\ Len(builder.sources) < MaxSources

\* ConfigBuilder::with_defaults
WithDefaults(tree) ==
  /\ Registering
  /\ builder' = AddSource(builder, TreeSource("Default", tree))
  /\ UNCHANGED <<raw, parsed, environ, given, self, stack, ret>>

\* ConfigBuilder::with_file
WithFile(path) ==
  /\ Registering
  /\ path \in DOMAIN files /\ files[path].ok
  /\ builder' = AddSource(builder, TreeSource("ConfigFile", files[path].tree))
  /\ UNCHANGED <<raw, parsed, environ, given, self, stack, ret>>

\* ConfigBuilder::with_env_custom
WithEnvCustom(env) ==
  /\ Registering
  /\ builder' = AddSource(builder, EnvSource(env))
  /\ UNCHANGED <<raw, parsed, environ, given, self, stack, ret>>

\* ConfigBuilder::with_cli_custom(Cli::from_args().with_field_mapping(..))
WithCliCustom(mappings) ==
  /\ Registering
  /\ builder' = AddSource(builder, TreeSource("Cli", cli_collect(args, mappings)))
  /\ UNCHANGED <<raw, parsed, environ, given, self, stack, ret>>

\* ConfigBuilder::with_merge_strategy
WithMergeStrategy(strategy) ==
  /\ Configuring
  /\ builder' = with_merge_strategy(builder, strategy)
  /\ UNCHANGED <<raw, parsed, environ, given, self, stack, ret>>

\* ConfigBuilder::build_value
BuilderBuildValue ==
  /\ Configuring
  /\ \E out \in build_value(builder, environ) :
        ret' = [op |-> "build_value", trees |-> out.trees, tree |-> out.tree]
  /\ UNCHANGED <<raw, parsed, environ, given, self, builder, stack>>

NextBuild ==
  \/ \E nv \in BuildEnv : SetVar(nv[1], nv[2])
  \/ WithDefaults(DefaultsTree)
  \/ \E path \in DOMAIN files : WithFile(path)
  \/ \E flag \in BOOLEAN : WithEnvCustom(nested(with_prefix(EnvironmentDefault, <<"A","P","P">>), flag))
  \/ WithCliCustom(<<"n","a","m","e">> :> <<"n","a","m","e">>)
  \/ \E strategy \in {"Deep", "Shallow"} : WithMergeStrategy(strategy)
  \/ BuilderBuildValue

SpecBuild == InitBuild /\ [][NextBuild]_vars

(***************************************************************************)
(* The merge on its own: trees registered as files, in any order and       *)
(* number, then build_value                                                *)
(***************************************************************************)
\* the trees that are merged: Objects, Arrays and scalars under the same keys
MergeFiles ==
  <<"0">> :> ReadableFile(VObject(EmptyMap)) @@
  <<"1">> :> ReadableFile(VObject(<<"k">> :> Num(1))) @@
  <<"2">> :> ReadableFile(VObject(<<"k">> :> VObject(<<"a">> :> Num(1)))) @@
  <<"3">> :> ReadableFile(VObject(<<"k">> :> VObject(<<"a">> :> Num(2) @@ <<"b">> :> VArray(<<Num(1)>>)))) @@
  <<"4">> :> ReadableFile(VObject(<<"k">> :> VArray(<<Num(1)>>) @@ <<"j">> :> Num(1))) @@
  <<"5">> :> ReadableFile(VObject(<<"k">> :> VObject(<<"b">> :> VArray(<<Num(2), Num(3)>>)))) @@
  <<"6">> :> ReadableFile(VObject(<<"k">> :> VObject(<<"a">> :> VObject(<<"c">> :> Num(1))) @@
                               <<"j">> :> VObject(<<"a">> :> Num(1))))

InitMerge ==
  /\ ParseIdle
  /\ args = EmptyMap
  /\ files = MergeFiles
  /\ Empty /\ EnvIdle /\ BuildIdle /\ GonfigIdle

NextMerge ==
  \/ \E path \in DOMAIN files : WithFile(path)
  \/ \E strategy \in {"Deep", "Shallow"} : WithMergeStrategy(strategy)
  \/ BuilderBuildValue

SpecMerge == InitMerge /\ [][NextMerge]_vars

(***************************************************************************)
(* from_gonfig: the calls of from_gonfig_with_builder_and_parent, one      *)
(* frame each, and the steps of the innermost call                         *)
(***************************************************************************)

\* the declarations a run starts from: the structs as they are declared, and with one edit
StructsChoices ==
  {WithEnvPrefixes(Structs, app, http, tls) :
     app \in {<<>>, <<"A","P","P">>}, http \in {<<>>, <<"H","T","T","P">>}, tls \in {<<>>, <<"T","L","S">>}}
  \cup {WithAllowConfigAndCli(Structs), WithoutSerdeSkip(Structs)}

Init ==
  /\ ParseIdle
  /\ args \in ArgsChoices
  /\ files \in FilesChoices
  /\ opts \in StructsChoices
  /\ Empty /\ EnvIdle /\ BuildIdle /\ stack = <<>>

\* the call of T::from_gonfig_with_parent_prefix(parent_prefix), at its first step
Call(ty, parent_prefix) ==
  [ty |-> ty, parent_prefix |-> parent_prefix, pc |-> "compose", composed_prefix |-> <<>>,
   builder |-> ConfigBuilderNew, children |-> EmptyMap, config_value |-> VNull, hook_calls |-> <<>>,
   result |-> Fail]

\* the error a call returns: its kind, and the struct whose call raised it
Raised(kind, ty) == [ok |-> FALSE, error |-> kind, by |-> ty]

\* a variant of NextNested: the nested fields taken from the last to the first
NextNested_reversed(frame) ==
  nested_fields(opts[frame.ty])[Len(nested_fields(opts[frame.ty])) - Cardinality(DOMAIN frame.children)]

\* the nested field the call loads next
NextNested(frame) == nested_fields(opts[frame.ty])[Cardinality(DOMAIN frame.children) + 1]

AllLoaded(frame) == Cardinality(DOMAIN frame.children) = Len(nested_fields(opts[frame.ty]))

\* T::from_gonfig()
FromGonfig(ty) ==
  /\ Configuring
  /\ stack' = <<Call(ty, <<>>)>>
  /\ UNCHANGED <<raw, parsed, environ, given, self, builder, ret>>

\* T::from_gonfig_with_builder(builder)
FromGonfigWithBuilder(ty, builder_) ==
  /\ Configuring
  /\ stack' = <<[Call(ty, <<>>) EXCEPT !.builder = builder_]>>
  /\ UNCHANGED <<raw, parsed, environ, given, self, builder, ret>>

\* let composed_prefix = ..
ComposePrefix ==
  /\ At("compose")
  /\ Step([Top EXCEPT !.composed_prefix = composed_prefix(Top.parent_prefix, opts[Top.ty].env_prefix),
                      !.pc = "env"])

\* if allow_env (always): builder.with_env_custom(env)
AddEnv ==
  /\ At("env")
  /\ Step([Top EXCEPT !.builder = AddSource(@, EnvSource(gonfig_env(Top.composed_prefix,
                                                                     regular_mappings(opts[Top.ty])))),
                      !.pc = "cli"])

\* if allow_cli: builder.with_cli_custom(cli)
AddCli ==
  /\ At("cli")
  /\ Step([Top EXCEPT !.builder = IF opts[Top.ty].allow_cli
                                  THEN AddSource(@, TreeSource("Cli",
                                         cli_collect(args, gonfig_cli(regular_mappings(opts[Top.ty])))))
                                  ELSE @,
                      !.pc = "config"])

\* if allow_config: builder.with_file(the first default config file), or its error
AddConfigFile ==
  /\ At("config")
  /\ IF opts[Top.ty].allow_config /\ config_file(files) # None
     THEN IF files[config_file(files)[1]].ok
          THEN Step([Top EXCEPT !.builder = AddSource(@, TreeSource("ConfigFile",
                                                        files[config_file(files)[1]].tree)),
                                !.pc = "defaults"])
          ELSE Step([Top EXCEPT !.result = Raised("Decode", Top.ty), !.pc = "done"])
     ELSE Step([Top EXCEPT !.pc = "defaults"])

\* if !default_values.is_empty(): builder.with_defaults(defaults_json)
AddDefaults ==
  /\ At("defaults")
  /\ Step([Top EXCEPT !.builder = IF default_mappings(opts[Top.ty]) # <<>>
                                  THEN AddSource(@, TreeSource("Default",
                                         VObject(defaults_json(default_mappings(opts[Top.ty])))))
                                  ELSE @,
                      !.pc = IF nested_fields(opts[Top.ty]) # <<>> THEN "nested" ELSE "build"])

\* let field = <FieldType>::from_gonfig_with_parent_prefix(&composed_prefix): the call
LoadNested ==
  /\ At("nested") /\ ~AllLoaded(Top)
  /\ stack' = Append(stack, Call(NextNested(Top).ty, Top.composed_prefix))
  /\ UNCHANGED <<raw, parsed, environ, given, self, builder, ret>>

\* .. and its return: the value of the field, or with ? the error of the caller
ReturnNested ==
  /\ Len(stack) >= 2 /\ Top.pc = "done"
  /\ LET caller == stack[Len(stack) - 1]
     IN stack' = Append(SubSeq(stack, 1, Len(stack) - 2),
                        IF Top.result.ok
                        THEN [caller EXCEPT !.children = MapInsert(@, NextNested(caller).ident,
                                                                   Top.result.v)]
                        ELSE [caller EXCEPT !.result = Top.result, !.pc = "done"])
  /\ UNCHANGED <<raw, parsed, environ, given, self, builder, ret>>

\* the build goes on with the merged tree: the hook of the builder, if it has one, is
\* called with the tree, and its rejection is the error of the build
Validated(frame, tree, pc) ==
  IF frame.builder.validator = None
  THEN [frame EXCEPT !.config_value = tree, !.pc = pc]
  ELSE IF Verdict(frame.builder.validator[1], tree)
  THEN [frame EXCEPT !.config_value = tree, !.hook_calls = Append(@, tree), !.pc = pc]
  ELSE [frame EXCEPT !.config_value = tree, !.hook_calls = Append(@, tree),
                     !.result = Raised("Validation", frame.ty), !.pc = "done"]

\* let mut config_value = builder.build_value()?
BuildValue ==
  /\ At("nested") /\ AllLoaded(Top)
  /\ \E out \in build_value(Top.builder, environ) : Step(Validated(Top, out.tree, "remove"))

\* map.remove(field), for every nested field
RemoveNested ==
  /\ At("remove")
  /\ Step([Top EXCEPT !.config_value = IF IsObject(@)
                                       THEN VObject(remove_all(@.o, nested_fields(opts[Top.ty])))
                                       ELSE @,
                      !.pc = "deserialize"])

\* let mut result: Self = serde_json::from_value(config_value).map_err(..)?
Deserialize ==
  /\ At("deserialize")
  /\ Step([Top EXCEPT !.result = IF from_value(Top.ty, Top.config_value, opts).ok
                                 THEN from_value(Top.ty, Top.config_value, opts)
                                 ELSE Raised("Serialization", Top.ty),
                      !.pc = IF from_value(Top.ty, Top.config_value, opts).ok
                             THEN "replace" ELSE "done"])

\* result.field = field, for every nested field; Ok(result)
ReplaceNested ==
  /\ At("replace")
  /\ Step([Top EXCEPT !.result = Ok(replace_nested(@.v, Top.children)), !.pc = "done"])

\* builder.build::<Self>(), for a struct without nested fields
Build ==
  /\ At("build")
  /\ \E out \in build_value(Top.builder, environ) :
        Step(IF Validated(Top, out.tree, "bind").pc = "bind"
             THEN [Validated(Top, out.tree, "bind") EXCEPT
                     !.result = IF from_value(Top.ty, out.tree, opts).ok
                                THEN from_value(Top.ty, out.tree, opts)
                                ELSE Raised("Binding", Top.ty),
                     !.pc = "done"]
             ELSE Validated(Top, out.tree, "bind"))

\* from_gonfig() returns to its caller
Return ==
  /\ Len(stack) = 1 /\ Top.pc = "done"
  /\ stack' = <<>>
  /\ ret' = [op |-> "from_gonfig", ty |-> Top.ty, result |-> Top.result]
  /\ UNCHANGED <<raw, parsed, environ, given, self, builder>>

Next ==
  \/ \E nv \in GonfigEnv : SetVar(nv[1], nv[2])
  \/ \E ty \in {"AppWithDeepNesting", "FullFeaturedConfig", "AppConfigWithSkip"} : FromGonfig(ty)
  \/ FromGonfigWithBuilder("FullFeaturedConfig", gonfig_builder(opts["FullFeaturedConfig"], args))
  \/ ComposePrefix
  \/ AddEnv
  \/ AddCli
  \/ AddConfigFile
  \/ AddDefaults
  \/ LoadNested
  \/ ReturnNested
  \/ BuildValue
  \/ RemoveNested
  \/ Deserialize
  \/ ReplaceNested
  \/ Build
  \/ Return

Spec == Init /\ [][Next]_vars

(***************************************************************************)
(* ConfigBuilder::build, step by step: the sources are collected and       *)
(* merged, the validation hook is called, the tree is bound                *)
(***************************************************************************)
ValidateEnv == {<<<<"A","P","P","_","N","A","M","E">>, <<"x">>>>, <<<<"A","P","P","_","N","A","M","E">>, <<"y">>>>, <<<<"A","P","P","_","H","T","T","P">>, <<"x">>>>}

Validators == {"accept", "reject", "name_not_x"}

\* config.json: {"http": [81]}, the section of a struct written as an Array
ArrayTree == VObject(<<"h","t","t","p">> :> VArray(<<Num(81)>>))

InitValidate ==
  /\ ParseIdle
  /\ args = (<<"n","a","m","e">> :> <<"c","l","i">>)
  /\ files = (<<"c","o","n","f","i","g",".","t","o","m","l">> :> ReadableFile(FileTree) @@ <<"c","o","n","f","i","g",".","j","s","o","n">> :> ReadableFile(ArrayTree))
  /\ Empty /\ EnvIdle /\ BuildIdle /\ GonfigIdle

\* ConfigBuilder::validate_with
ValidateWith(validator) ==
  /\ Configuring
  /\ builder' = validate_with(builder, validator)
  /\ UNCHANGED <<raw, parsed, environ, given, self, stack, ret>>

\* the call of builder.build::<T>(), before its first step
BuildCall(target) ==
  [op |-> "build", target |-> target, pc |-> "merge", merged |-> None, hook_calls |-> <<>>,
   bound |-> None, result |-> Fail]

\* builder.build::<T>() is called
BuilderBuild(target) ==
  /\ Configuring
  /\ stack' = <<BuildCall(target)>>
  /\ UNCHANGED <<raw, parsed, environ, given, self, builder, ret>>

\* every source is collected and the trees are merged
BuildMerge ==
  /\ At("merge") /\ Top.op = "build"
  /\ \E out \in build_value(builder, environ) :
        Step([Top EXCEPT !.merged = Some(out.tree),
                         !.pc = IF builder.validator # None THEN "validate" ELSE "bind"])

\* the hook is called with the merged tree
BuildValidate ==
  /\ At("validate") /\ Top.op = "build"
  /\ Step([Top EXCEPT !.hook_calls = Append(@, Top.merged[1]),
                      !.result = IF Verdict(builder.validator[1], Top.merged[1])
                                 THEN @ ELSE Err("Validation"),
                      !.pc = after_validation(Verdict(builder.validator[1], Top.merged[1]))])

\* the tree is bound to the target type
BuildBind ==
  /\ At("bind") /\ Top.op = "build"
  /\ Step([Top EXCEPT !.bound = Top.merged,
                      !.result = IF from_value(Top.target, Top.merged[1], Structs).ok
                                 THEN from_value(Top.target, Top.merged[1], Structs)
                                 ELSE Err("Binding"),
                      !.pc = "done"])

\* builder.build::<T>() returns
BuildReturn ==
  /\ Len(stack) = 1 /\ Top.pc = "done" /\ Top.op = "build"
  /\ stack' = <<>>
  /\ ret' = [op |-> "build", result |-> Top.result, hook_calls |-> Top.hook_calls,
             merged |-> Top.merged, bound |-> Top.bound]
  /\ UNCHANGED <<raw, parsed, environ, given, self, builder>>

NextValidate ==
  \/ \E nv \in ValidateEnv : SetVar(nv[1], nv[2])
  \/ \E path \in DOMAIN files : WithFile(path)
  \/ WithEnvCustom(nested(with_prefix(EnvironmentDefault, <<"A","P","P">>), TRUE))
  \/ \E validator \in Validators : ValidateWith(validator)
  \/ BuilderBuild("AppWithDeepNesting")
  \/ BuildMerge
  \/ BuildValidate
  \/ BuildBind
  \/ BuildReturn

SpecValidate == InitValidate /\ [][NextValidate]_vars

(***************************************************************************)

(* from_gonfig of a struct with two nested fields: the structs of          *)
(* tests/nested_prefix_composition.rs as they are declared ("plain"), and  *)
(* edited: the parent with allow_config and allow_cli ("allowed"), a       *)
(* default of port that is no u16 ("malformed"), and attributes of regular *)
(* fields on the nested field server with database both skipped and nested *)
(* ("classified")                                                          *)
(***************************************************************************)

TradeStructs(variant) ==
  [ty \in {"TradeSmithConfig", "ServerConfig", "DatabaseConfig"} |->
     CASE ty = "TradeSmithConfig" ->
            [env_prefix |-> <<"T","R","A","D","E","S","M","I","T","H">>, allow_cli |-> (variant = "allowed"),
             allow_config |-> (variant = "allowed"), serde_default |-> FALSE,
             fields |-> <<[Field(<<"s","e","r","v","e","r">>, "ServerConfig") EXCEPT
                             !.nested = TRUE, !.serde_default = TRUE,
                             !.env_name = IF variant = "classified" THEN Some(<<"S","R","V">>) ELSE None,
                             !.default = IF variant = "classified" THEN Some(<<"1">>) ELSE None],
                          [Field(<<"d","a","t","a","b","a","s","e">>, "DatabaseConfig") EXCEPT
                             !.nested = TRUE, !.serde_default = TRUE,
                             !.skip_gonfig = (variant = "classified")],
                          [Field(<<"e","n","v","i","r","o","n","m","e","n","t">>, "String") EXCEPT !.default = Some(<<"p","r","o","d","u","c","t","i","o","n">>)]>>]
       [] ty = "ServerConfig" ->
            [env_prefix |-> <<"S","E","R","V","E","R">>, allow_cli |-> FALSE, allow_config |-> FALSE,
             serde_default |-> TRUE,
             fields |-> <<[Field(<<"h","o","s","t">>, "String") EXCEPT !.default = Some(<<"1","2","7",".","0",".","0",".","1">>)],
                          [Field(<<"p","o","r","t">>, "u16") EXCEPT
                             !.default = IF variant = "malformed" THEN Some(<<"x">>) ELSE Some(<<"8","0","8","0">>)]>>]
       [] ty = "DatabaseConfig" ->
            [env_prefix |-> <<"D","A","T","A","B","A","S","E">>, allow_cli |-> FALSE, allow_config |-> FALSE,
             serde_default |-> TRUE,
             fields |-> <<[Field(<<"u","r","l">>, "String") EXCEPT !.default = Some(<<"s","q","l","i","t","e",":",".","/","d","a","t","a",".","d","b">>)]>>]]

\* the environment variables that can be set, each with the values it can have
TradeEnv ==
  {<<<<"T","R","A","D","E","S","M","I","T","H","_","S","E","R","V","E","R","_","P","O","R","T">>, <<"1">>>>, <<<<"T","R","A","D","E","S","M","I","T","H","_","S","E","R","V","E","R","_","P","O","R","T">>, <<"x">>>>,
   <<<<"T","R","A","D","E","S","M","I","T","H","_","D","A","T","A","B","A","S","E","_","U","R","L">>, <<"u">>>>, <<<<"T","R","A","D","E","S","M","I","T","H","_","D","A","T","A","B","A","S","E","_","U","R","L">>, <<"1">>>>,
   <<<<"T","R","A","D","E","S","M","I","T","H","_","E","N","V","I","R","O","N","M","E","N","T">>, <<"e">>>>, <<<<"S","R","V">>, <<"1">>>>}

\* the working directory: empty, or with some of config.toml, config.yaml and config.json
TradeFiles ==
  {EmptyMap,
   <<"c","o","n","f","i","g",".","t","o","m","l">> :> ReadableFile(VObject(<<"e","n","v","i","r","o","n","m","e","n","t">> :> VString(<<"t","o","m","l">>)))
     @@ <<"c","o","n","f","i","g",".","y","a","m","l">> :> ReadableFile(VObject(<<"e","n","v","i","r","o","n","m","e","n","t">> :> VString(<<"y","a","m","l">>)))
     @@ <<"c","o","n","f","i","g",".","j","s","o","n">> :> MalformedFile,
   <<"c","o","n","f","i","g",".","y","a","m","l">> :> MalformedFile
     @@ <<"c","o","n","f","i","g",".","j","s","o","n">> :> ReadableFile(VObject(<<"e","n","v","i","r","o","n","m","e","n","t">> :> VString(<<"j","s","o","n">>))),
   <<"c","o","n","f","i","g",".","j","s","o","n">> :> ReadableFile(VObject(<<"e","n","v","i","r","o","n","m","e","n","t">> :> VString(<<"j","s","o","n">>)
                                          @@ <<"s","e","r","v","e","r">> :> VObject(<<"p","o","r","t">> :> Num(0))))}

InitTrade ==
  /\ ParseIdle
  /\ args = EmptyMap
  /\ files \in TradeFiles
  /\ opts \in {TradeStructs(variant) : variant \in {"plain", "allowed", "malformed", "classified"}}
  /\ Empty /\ EnvIdle /\ BuildIdle /\ stack = <<>>


\* the builders handed to from_gonfig_with_builder: a new builder with a validation
\* hook, the builder of gonfig_builder(), and that builder with a hook
TradeBuilders(o, argv) ==
  {validate_with(ConfigBuilderNew, validator) : validator \in {"accept", "reject"}}
  \cup {gonfig_builder(o, argv)}
  \cup {validate_with(gonfig_builder(o, argv), validator) : validator \in {"accept", "reject"}}

NextTrade ==
  \/ \E nv \in TradeEnv : SetVar(nv[1], nv[2])
  \/ FromGonfig("TradeSmithConfig")
  \/ \E builder_ \in TradeBuilders(opts["TradeSmithConfig"], args) :
        FromGonfigWithBuilder("TradeSmithConfig", builder_)
  \/ ComposePrefix
  \/ AddEnv
  \/ AddCli
  \/ AddConfigFile
  \/ AddDefaults
  \/ LoadNested
  \/ ReturnNested
  \/ BuildValue
  \/ RemoveNested
  \/ Deserialize
  \/ ReplaceNested
  \/ Build
  \/ Return

SpecTrade == InitTrade /\ [][NextTrade]_vars

(***************************************************************************)
(* collect() alone, while another thread sets and removes variables        *)
(***************************************************************************)
\* the variables of the two threads: a mapping target outside the prefix, a prefixed
\* variable whose derived name is a mapped field's, one more prefixed variable, and the
\* prefix alone
ConcurrentNames == {<<"D","B">>, <<"A","P","P","_","A">>, <<"A","P","P","_","X">>, <<"A","P","P">>}

NextConcurrent ==
  \/ \E name \in ConcurrentNames, value \in EnvValues : SetVar(name, value)
  \/ WithPrefix(<<"A","P","P">>)
  \/ OverrideWith(<<"D","B">>, <<"2">>)
  \/ \E field_name \in {<<"a">>, <<"x">>}, env_key \in {<<"D","B">>, <<"A","P","P","_","X">>} :
        WithFieldMapping(field_name, env_key)
  \/ \E flag \in BOOLEAN : Nested(flag)
  \/ CollectCall
  \/ CollectMapped
  \/ CollectVars
  \/ \E name \in ConcurrentNames \ {<<"A","P","P">>}, value \in {None, Some(<<"1">>)} :
        OtherThread(name, value)

SpecConcurrent == InitEnv /\ [][NextConcurrent]_vars


(***************************************************************************)
(* C1: prefix composition                                                  *)
(***************************************************************************)
\* the non-empty prefixes of the structs of the calls 1..n, outermost first, joined by "_"
ChainPrefix(n) ==
  join(SelectSeq([i \in 1..n |-> opts[stack[i].ty].env_prefix], LAMBDA p : p # <<>>), <<"_">>)

\* C1: in every call, the composed prefix is the own prefix O when the parent prefix P
\* is empty, P when O is empty and P + "_" + O otherwise; along the chain of nested
\* calls it is the "_"-join, outermost first, of exactly the non-empty prefixes.
C1_PrefixComposition ==
  \A n \in 1..Len(stack) :
     stack[n].pc # "compose" =>
       LET P == stack[n].parent_prefix
           O == opts[stack[n].ty].env_prefix
           c == stack[n].composed_prefix
       IN /\ P = <<>> => c = O
          /\ O = <<>> => c = P
          /\ P # <<>> /\ O # <<>> => c = P \o <<"_">> \o O
          /\ c = ChainPrefix(n)

\* the innermost of three calls has composed its prefix, over an empty prefix in the
\* middle of the chain
C1_ChainWithEmptyLink ==
  /\ Len(stack) = 3 /\ stack[3].pc # "compose"
  /\ opts["AppWithDeepNesting"].env_prefix = <<"A","P","P">>
  /\ opts["HttpConfig"].env_prefix = <<>>
  /\ opts["TlsConfig"].env_prefix = <<"T","L","S">>
  /\ stack[3].composed_prefix = <<"A","P","P","_","T","L","S">>

(***************************************************************************)
(* C2: the external key of a regular field                                 *)
(***************************************************************************)

\* the Environment sources a call's builder holds
EnvSources(frame) ==
  {frame.builder.sources[i].env :
     i \in {j \in 1..Len(frame.builder.sources) : frame.builder.sources[j].src = "env"}}

\* C2: once a call has registered its Environment source, the key mapped to every
\* field that is neither skipped nor nested and has no explicit env_name is
\* composed_prefix + "_" + UPPER(field), or UPPER(field) when the composed prefix is
\* empty; a nested field has no mapping.
C2_ExternalKeys ==
  \A n \in 1..Len(stack) :
     stack[n].pc \notin {"compose", "env"} =>
       LET c == stack[n].composed_prefix
           fields == opts[stack[n].ty].fields
       IN /\ EnvSources(stack[n]) # {}
          /\ \A env \in EnvSources(stack[n]) : \A i \in 1..Len(fields) :
                /\ ~Skips(fields[i]) /\ ~fields[i].nested /\ fields[i].env_name = None =>
                     /\ fields[i].ident \in DOMAIN env.field_mappings
                     /\ env.field_mappings[fields[i].ident] =
                          IF c = <<>> THEN to_uppercase(fields[i].ident)
                          ELSE c \o <<"_">> \o to_uppercase(fields[i].ident)
                /\ fields[i].nested => fields[i].ident \notin DOMAIN env.field_mappings

\* the two inner calls have registered their sources: one struct has a nested field,
\* the other an unmapped regular field under a composed prefix of three
C2_MappingsRegistered ==
  /\ Len(stack) = 3 /\ stack[3].pc = "cli"
  /\ stack[2].composed_prefix = <<"A","P","P","_","H","T","T","P">>
  /\ stack[3].composed_prefix = <<"A","P","P","_","H","T","T","P","_","T","L","S">>
  /\ stack[3].builder.sources[1].env.field_mappings[<<"e","n","a","b","l","e","d">>] = <<"A","P","P","_","H","T","T","P","_","T","L","S","_","E","N","A","B","L","E","D">>

(***************************************************************************)
(* C3: the uncomposed prefix has no effect                                 *)
(***************************************************************************)
\* the value a default attribute gives a field
DefaultOf(field) ==
  IF from_str(field.default[1]).ok THEN from_str(field.default[1]).v ELSE VString(field.default[1])

\* C3: when a nested struct with own prefix C has been resolved under a non-empty
\* parent prefix P, every regular field without explicit env_name has the value of
\* P_C_FIELD when that variable is set, whatever else is set, and its default when no
\* variable with the composed prefix is set: C_FIELD has no effect.
C3_UncomposedIgnored ==
  \A n \in 1..Len(stack) :
     /\ stack[n].pc = "done" /\ stack[n].result.ok
     /\ stack[n].parent_prefix # <<>> /\ opts[stack[n].ty].env_prefix # <<>>
     => LET PC == stack[n].parent_prefix \o <<"_">> \o opts[stack[n].ty].env_prefix
            fields == opts[stack[n].ty].fields
        IN \A i \in 1..Len(fields) :
              ~Skips(fields[i]) /\ ~fields[i].nested /\ fields[i].env_name = None =>
                LET composed_key == PC \o <<"_">> \o to_uppercase(fields[i].ident)
                    value == stack[n].result.v.o[fields[i].ident]
                IN /\ composed_key \in DOMAIN environ =>
                        value = parse_env_value(environ[composed_key])
                   /\ (\A k \in DOMAIN environ : ~starts_with(to_uppercase(k), PC)) =>
                        value = DefaultOf(fields[i])

\* HttpConfig has been resolved under APP with both APP_HTTP_PORT and HTTP_PORT set
C3_BothPrefixesSet ==
  /\ Len(stack) = 2 /\ stack[2].pc = "done" /\ stack[2].result.ok
  /\ stack[2].parent_prefix = <<"A","P","P">> /\ opts["HttpConfig"].env_prefix = <<"H","T","T","P">>
  /\ <<"A","P","P","_","H","T","T","P","_","P","O","R","T">> \in DOMAIN environ /\ <<"H","T","T","P","_","P","O","R","T">> \in DOMAIN environ
  /\ stack[2].result.v.o[<<"p","o","r","t">>] = Num(1)

(***************************************************************************)
(* C4: the prefix a nested struct is loaded with                           *)
(***************************************************************************)
\* C4: a nested struct loaded through its parent's from_gonfig() uses its own prefix:
\* under a parent with env_prefix APP, HTTP_PORT populates the port of the nested
\* struct with env_prefix HTTP, and TLS_ENABLED populates the struct with env_prefix
\* TLS nested two levels down.
C4_OwnPrefix ==
  /\ ret.op = "from_gonfig" /\ ret.result.ok
  /\ opts["AppWithDeepNesting"].env_prefix = <<"A","P","P">>
  /\ opts["HttpConfig"].env_prefix = <<"H","T","T","P">>
  /\ opts["TlsConfig"].env_prefix = <<"T","L","S">>
  => /\ <<"H","T","T","P","_","P","O","R","T">> \in DOMAIN environ =>
          TreeGet(ret.result.v, <<<<"h","t","t","p">>, <<"p","o","r","t">>>>) = Some(parse_env_value(environ[<<"H","T","T","P","_","P","O","R","T">>]))
     /\ <<"T","L","S","_","E","N","A","B","L","E","D">> \in DOMAIN environ =>
          TreeGet(ret.result.v, <<<<"h","t","t","p">>, <<"t","l","s">>, <<"e","n","a","b","l","e","d">>>>)
            = Some(parse_env_value(environ[<<"T","L","S","_","E","N","A","B","L","E","D">>]))

\* from_gonfig() has returned with HTTP_PORT set and the port at its default
C4_OwnPrefixIgnored ==
  /\ ret.op = "from_gonfig" /\ ret.result.ok
  /\ opts["AppWithDeepNesting"].env_prefix = <<"A","P","P">>
  /\ opts["HttpConfig"].env_prefix = <<"H","T","T","P">>
  /\ <<"H","T","T","P","_","P","O","R","T">> \in DOMAIN environ
  /\ TreeGet(ret.result.v, <<<<"h","t","t","p">>, <<"p","o","r","t">>>>) = Some(Num(8080))

(***************************************************************************)
(* C5: the nested child is authoritative                                   *)
(***************************************************************************)
\* C5: when a call for a struct with nested fields ends well, the value of every
\* nested field in its result is the value the call of the child returned, whatever
\* the merged tree of the parent held under that key.
C5_ChildAuthoritative ==
  \A n \in 1..Len(stack) :
     stack[n].pc = "done" /\ stack[n].result.ok =>
       \A i \in 1..Len(opts[stack[n].ty].fields) :
          LET f == opts[stack[n].ty].fields[i]
          IN f.nested /\ ~Skips(f) =>
               /\ f.ident \in DOMAIN stack[n].children
               /\ stack[n].result.v.o[f.ident] = stack[n].children[f.ident]

\* the outermost call has ended well where the config file has an http section and
\* APP_HTTP is set, so that the merged tree of the parent held the key http twice over
C5_ParentHeldKey ==
  /\ Len(stack) = 1 /\ stack[1].pc = "done" /\ stack[1].result.ok
  /\ opts["AppWithDeepNesting"].env_prefix = <<"A","P","P">> /\ opts["AppWithDeepNesting"].allow_config
  /\ <<"c","o","n","f","i","g",".","t","o","m","l">> \in DOMAIN files
  /\ <<"A","P","P","_","H","T","T","P">> \in DOMAIN environ
  /\ TreeGet(stack[1].result.v, <<<<"h","t","t","p">>, <<"p","o","r","t">>>>) = Some(Num(8080))

(***************************************************************************)
(* C6: the precedence of the sources                                       *)
(***************************************************************************)
\* the paths of a tree that end at a value that is no Object
RECURSIVE LeafPaths(_)
LeafPaths(v) ==
  IF IsObject(v) THEN UNION {{<<k>> \o p : p \in LeafPaths(v.o[k])} : k \in DOMAIN v.o}
  ELSE {<<>>}

\* defaults < config files < environment < command line
Rank(source) ==
  IF source.src = "env" THEN 2
  ELSE CASE source.kind = "Default" -> 0 [] source.kind = "ConfigFile" -> 1 [] source.kind = "Cli" -> 3

\* source i yields to source j: by kind, and by registration among sources of one kind
Yields(i, j) ==
  \/ Rank(builder.sources[i]) < Rank(builder.sources[j])
  \/ Rank(builder.sources[i]) = Rank(builder.sources[j]) /\ i < j

\* C6: whatever the order of registration, every leaf of the built tree has the value
\* of the source of highest precedence that defines its path, with defaults < config
\* files in registration order < environment < command line; every top-level key a
\* source defines is in the built tree.
C6_Precedence ==
  ret.op = "build_value" =>
    /\ \A p \in LeafPaths(ret.tree) :
          LET defining == {i \in 1..Len(ret.trees) : TreeGet(ret.trees[i], p) # None}
          IN /\ defining # {}
             /\ \A i \in defining :
                   (\A j \in defining \ {i} : Yields(j, i)) =>
                     TreeGet(ret.tree, p) = TreeGet(ret.trees[i], p)
    /\ \A i \in 1..Len(ret.trees) : DOMAIN ret.trees[i].o \subseteq DOMAIN ret.tree.o

\* a tree has been built from the environment, the defaults and a file registered in
\* that order, where all three define name
C6_RegisteredAgainstPrecedence ==
  /\ ret.op = "build_value" /\ Len(builder.sources) = 3
  /\ builder.sources[1].src = "env"
  /\ builder.sources[2].src = "tree" /\ builder.sources[2].kind = "Default"
  /\ builder.sources[3].src = "tree" /\ builder.sources[3].kind = "ConfigFile"
  /\ <<"A","P","P","_","N","A","M","E">> \in DOMAIN environ
  /\ TreeGet(ret.tree, <<<<"n","a","m","e">>>>) = Some(VString(<<"x">>))

(***************************************************************************)
(* C7: nested mode and the Deep merge                                      *)
(***************************************************************************)
\* one file and one nested Environment source with prefix APP, in any order
FileAndNestedEnv ==
  /\ ret.op = "build_value" /\ builder.merge_strategy = "Deep"
  /\ Len(builder.sources) = 2
  /\ \E i, j \in 1..2 :
        /\ builder.sources[i].src = "tree" /\ builder.sources[i].kind = "ConfigFile"
        /\ builder.sources[j].src = "env" /\ builder.sources[j].env.nested

\* the variables APP_S1_.._Sn and the path [s1, .., sn] of each
AppVars == {name \in DOMAIN environ : starts_with(name, <<"A","P","P","_">>)}

VarPath(name) == to_lowercase_parts(split(DropFirst(name, Len(<<"A","P","P","_">>)), <<"_">>))

Related(p, q) == starts_with(p, q) \/ starts_with(q, p)

\* C7: with a file and a nested Environment source with prefix APP merged Deep, a
\* variable APP_S1_.._Sn whose path is a leaf of the file tree, no other variable
\* being at, over or under that path, overrides that leaf with its coerced value, at
\* any depth; every leaf of the file tree that is neither at, over nor under the path
\* of a variable keeps its file value.
C7_NestedOverride ==
  FileAndNestedEnv =>
    /\ \A name \in AppVars :
          /\ VarPath(name) \in LeafPaths(FileTree)
          /\ \A other \in AppVars \ {name} : ~Related(VarPath(other), VarPath(name))
          => TreeGet(ret.tree, VarPath(name)) = Some(parse_env_value(environ[name]))
    /\ \A q \in LeafPaths(FileTree) :
          (\A name \in AppVars : ~Related(VarPath(name), q)) =>
            TreeGet(ret.tree, q) = TreeGet(FileTree, q)

\* APP_HTTP_TLS_ENABLED has overridden the leaf three levels down and its sibling
\* has kept the file value
C7_ThreeLevelsDown ==
  /\ FileAndNestedEnv
  /\ <<"A","P","P","_","H","T","T","P","_","T","L","S","_","E","N","A","B","L","E","D">> \in DOMAIN environ
  /\ TreeGet(ret.tree, <<<<"h","t","t","p">>, <<"t","l","s">>, <<"e","n","a","b","l","e","d">>>>) = Some(VBool(FALSE))
  /\ TreeGet(ret.tree, <<<<"h","t","t","p">>, <<"t","l","s">>, <<"c","e","r","t","_","p","a","t","h">>>>) = Some(VString(<<"f">>))
  /\ TreeGet(ret.tree, <<<<"h","t","t","p">>, <<"p","o","r","t">>>>) = Some(Num(3000))

(***************************************************************************)
(* C8: flat mode                                                           *)
(***************************************************************************)
\* the tree built from the sources other than the Environment sources
WithoutEnv ==
  LET order == SelectSeq(MergeOrder(builder.sources), LAMBDA i : builder.sources[i].src # "env")
  IN merge_all([n \in 1..Len(order) |-> ret.trees[order[n]]], builder.merge_strategy)

\* C8: with Environment sources in flat mode only, and no variable standing for the
\* key http itself, the value at http.port of the built tree is the one the other
\* sources give it, whatever APP_HTTP_PORT is set to: with an Environment source
\* registered, APP_HTTP_PORT is the top-level key http_port.
C8_FlatKeyOnly ==
  /\ ret.op = "build_value"
  /\ \A i \in 1..Len(builder.sources) :
        builder.sources[i].src = "env" => ~builder.sources[i].env.nested
  /\ <<"A","P","P","_","H","T","T","P">> \notin DOMAIN environ
  => /\ TreeGet(ret.tree, <<<<"h","t","t","p">>, <<"p","o","r","t">>>>) = TreeGet(WithoutEnv, <<<<"h","t","t","p">>, <<"p","o","r","t">>>>)
     /\ (\E i \in 1..Len(builder.sources) : builder.sources[i].src = "env")
          /\ <<"A","P","P","_","H","T","T","P","_","P","O","R","T">> \in DOMAIN environ
        => TreeGet(ret.tree, <<<<"h","t","t","p","_","p","o","r","t">>>>)
             = Some(parse_env_value(environ[<<"A","P","P","_","H","T","T","P","_","P","O","R","T">>]))

\* a file and a flat Environment source have been merged with APP_HTTP_PORT set
C8_FileValueKept ==
  /\ ret.op = "build_value" /\ Len(builder.sources) = 2
  /\ builder.sources[1].src = "tree" /\ builder.sources[1].kind = "ConfigFile"
  /\ builder.sources[2].src = "env" /\ ~builder.sources[2].env.nested
  /\ <<"A","P","P","_","H","T","T","P","_","P","O","R","T">> \in DOMAIN environ
  /\ TreeGet(ret.tree, <<<<"h","t","t","p">>, <<"p","o","r","t">>>>) = Some(Num(3000))
  /\ TreeGet(ret.tree, <<<<"h","t","t","p","_","p","o","r","t">>>>) = Some(Num(1))

(***************************************************************************)
(* C9: the coercion order of parse_env_value                               *)
(***************************************************************************)
BracketDelimited(value) == starts_with(value, <<"[">>) /\ ends_with(value, <<"]">>)

BraceDelimited(value) == starts_with(value, <<"{">>) /\ ends_with(value, <<"}">>)

\* C9: parse_env_value gives every raw string the value of the first reading that
\* succeeds, in the order boolean literal, signed 64-bit integer, 64-bit float, JSON
\* array (bracket-delimited and parsing), JSON object (brace-delimited and parsing),
\* and otherwise the unchanged string: a Bool, an integer Number, a float Number, an
\* Array, an Object, or the String of the raw text.
C9_CoercionOrder ==
  parsed # None =>
    IF parse_bool(raw).ok THEN parsed[1] = VBool(parse_bool(raw).v)
    ELSE IF parse_i64(raw).ok THEN parsed[1].t = "Number" /\ parsed[1].kind = "int"
    ELSE IF parse_f64(raw).ok THEN parsed[1].t = "Number" /\ parsed[1].kind = "float"
    ELSE IF BracketDelimited(raw) /\ from_str_vec(raw).ok THEN parsed[1].t = "Array"
    ELSE IF BraceDelimited(raw) /\ from_str(raw).ok THEN parsed[1].t = "Object"
    ELSE parsed[1] = VString(raw)

\* a text that reads as a 64-bit float has been coerced, and the result is no Number
C9_FloatWithoutNumber ==
  /\ parsed # None
  /\ ~parse_bool(raw).ok /\ ~parse_i64(raw).ok /\ parse_f64(raw).ok
  /\ parsed[1] = VNull

(***************************************************************************)
(* C10: overrides and the live environment                                 *)
(***************************************************************************)
\* the path of the tree at which collect puts environment variable key, None for a
\* variable that collect does not read
ResolvedPath(self_, key) ==
  IF DOMAIN self_.field_mappings # {}
  THEN IF \E f \in DOMAIN self_.field_mappings : self_.field_mappings[f] = key
       THEN Some(<<CHOOSE f \in DOMAIN self_.field_mappings : self_.field_mappings[f] = key>>)
       ELSE IF self_.prefix # None /\ starts_with(KeyCheck(self_, key), PrefixStr(self_))
            THEN Some(<<to_lowercase(EnvFlatKey(self_, key)[1])>>)
            ELSE None
  ELSE IF EnvFlatKey(self_, key) = None THEN None
       ELSE IF self_.nested
            THEN Some(to_lowercase_parts(split(EnvFlatKey(self_, key)[1], self_.separator)))
            ELSE Some(<<to_lowercase(EnvFlatKey(self_, key)[1])>>)

\* C10: whenever an override is registered for an external key that the live
\* environment defines too, the value produced for that key is the override's, in
\* get_value and in collect, for every configuration of the source.
C10_OverridesWin ==
  /\ ret.op = "get_value" =>
       LET env_key == build_env_key(self, <<ret.key>>)
       IN env_key \in DOMAIN self.overrides \cap DOMAIN environ =>
            ret.value = Some(parse_env_value(self.overrides[env_key]))
  /\ ret.op = "collect" =>
       \A key \in DOMAIN self.overrides \cap DOMAIN environ :
          ResolvedPath(self, key) # None =>
            TreeGet(ret.tree, ResolvedPath(self, key)[1]) = Some(parse_env_value(self.overrides[key]))

\* collect has returned the live variable's value for a key that has an override
C10_OverrideLost ==
  /\ ret.op = "collect"
  /\ \E key \in DOMAIN self.overrides \cap DOMAIN environ :
        /\ ResolvedPath(self, key) # None
        /\ TreeGet(ret.tree, ResolvedPath(self, key)[1]) = Some(parse_env_value(environ[key]))
        /\ parse_env_value(environ[key]) # parse_env_value(self.overrides[key])

(***************************************************************************)
(* C11: the prefix filter                                                  *)
(***************************************************************************)
\* the name of a variable starts with the prefix followed by the separator
Qualifies(self_, key) ==
  starts_with(KeyCheck(self_, key), PrefixStr(self_) \o self_.separator)

\* the environment cut down to the qualifying variables and the mapping targets
Considered(self_, env) ==
  [key \in {k \in DOMAIN env : Qualifies(self_, k) \/ k \in Range(self_.field_mappings)} |->
     env[key]]

\* C11: with a prefix configured, collect considers only the variables whose
\* case-normalised name starts with the prefix followed by the separator (and the
\* targets of the field mappings): the tree it returns is one it can return from those
\* variables alone, so that a variable such as APPPORT under prefix APP contributes no
\* key.
C11_PrefixFilter ==
  ret.op = "collect" /\ self.prefix # None =>
    ret.tree \in collect(self, Considered(self, environ))

\* collect under prefix APP has returned the key port for the variable APPPORT alone
C11_UnseparatedNameRead ==
  /\ ret.op = "collect" /\ self.prefix = Some(<<"A","P","P">>)
  /\ DOMAIN environ = {<<"A","P","P","P","O","R","T">>}
  /\ DOMAIN self.overrides = {}
  /\ <<"p","o","r","t">> \in DOMAIN ret.tree.o

(***************************************************************************)
(* C12: the separator stripped after the prefix                            *)
(***************************************************************************)
\* the rest of a name after the prefix and one separator
AfterOneSeparator(self_, key) ==
  DropFirst(KeyCheck(self_, key), Len(PrefixStr(self_)) + Len(self_.separator))

\* C12: exactly one separator is removed after the prefix: where collect keeps the
\* keys flat, every variable that starts with the prefix and the separator, and is no
\* mapping's target, has the rest of its name, lowercased, as a key of the tree, so
\* that APP__X under prefix APP gives the key _x.
C12_OneSeparatorStripped ==
  /\ ret.op = "collect" /\ self.prefix # None
  /\ ~self.nested \/ DOMAIN self.field_mappings # {}
  => \A key \in DOMAIN environ :
        Qualifies(self, key) /\ key \notin Range(self.field_mappings) =>
          to_lowercase(AfterOneSeparator(self, key)) \in DOMAIN ret.tree.o

\* collect under prefix APP has returned the key x, and no key _x, for APP__X
C12_EverySeparatorStripped ==
  /\ ret.op = "collect" /\ self.prefix = Some(<<"A","P","P">>)
  /\ <<"A","P","P","_","_","X">> \in DOMAIN environ
  /\ <<"x">> \in DOMAIN ret.tree.o
  /\ <<"_","x">> \notin DOMAIN ret.tree.o

(***************************************************************************)
(* C13: flat and nested materialisation                                    *)
(***************************************************************************)
\* the stripped remainders that reach the tree, each with the coerced value: those of
\* the variables the source reads and those of its overrides
Remainders(self_, env) ==
  {[key |-> EnvFlatKey(self_, k)[1], value |-> parse_env_value(env[k])] :
     k \in {n \in DOMAIN env : EnvFlatKey(self_, n) # None}}
  \cup {[key |-> OverrideFlatKey(self_, k)[1], value |-> parse_env_value(self_.overrides[k])] :
          k \in {n \in DOMAIN self_.overrides : OverrideFlatKey(self_, n) # None}}

\* the path of a remainder: one lowercased component per level in nested mode, one
\* lowercased key in flat mode
PathOf(self_, key) ==
  IF self_.nested
  THEN LET parts == split(key, self_.separator)
       IN [i \in 1..Len(parts) |-> to_lowercase(parts[i])]
  ELSE <<to_lowercase(key)>>

\* no remainder with another path is at, over or under the path of this one
Unrivalled(self_, env, r) ==
  \A other \in Remainders(self_, env) :
     PathOf(self_, other.key) # PathOf(self_, r.key) =>
       ~Related(PathOf(self_, other.key), PathOf(self_, r.key))

\* the tree holds every unrivalled remainder at its path, and nothing else
MaterialisedAt(self_, env, tree) ==
  /\ \A r \in Remainders(self_, env) :
        Unrivalled(self_, env, r) =>
          TreeGet(tree, PathOf(self_, r.key)) \in
            {Some(other.value) :
               other \in {o \in Remainders(self_, env) : PathOf(self_, o.key) = PathOf(self_, r.key)}}
  /\ \A p \in LeafPaths(tree) :
        p = <<>> \/ \E r \in Remainders(self_, env) : starts_with(p, PathOf(self_, r.key))

\* C13: for every Environment, collect splits the remainder of each variable it reads
\* on the separator into one lowercased component per level of nested Object when
\* nested mode is on, and makes it one lowercase key of a single-level Object when it
\* is off.
C13_Materialisation ==
  ret.op = "collect" /\ (self.prefix # None \/ DOMAIN self.field_mappings = {}) =>
    \A k \in DOMAIN environ \ Range(self.field_mappings) :
       /\ EnvFlatKey(self, k) # None
       /\ Unrivalled(self, environ,
                     [key |-> EnvFlatKey(self, k)[1], value |-> parse_env_value(environ[k])])
       => TreeGet(ret.tree, PathOf(self, EnvFlatKey(self, k)[1])) # None

\* C13, for the sources it holds for: an Environment without field mappings splits
\* each remainder on the separator into one lowercased component per level of nested
\* Object when nested mode is on, and makes it one lowercase key of a single-level
\* Object when it is off; with field mappings the keys are flat whatever the mode.
C13_MaterialisationUnmapped ==
  ret.op = "collect" /\ DOMAIN self.field_mappings = {} =>
    MaterialisedAt(self, environ, ret.tree)

\* collect in nested mode has returned {"a": {"b": 1}} for APP_A_B
C13_TwoLevels ==
  /\ ret.op = "collect" /\ self.nested /\ DOMAIN self.field_mappings = {}
  /\ self.prefix = Some(<<"A","P","P">>)
  /\ <<"A","P","P","_","A","_","B">> \in DOMAIN environ
  /\ TreeGet(ret.tree, <<<<"a">>, <<"b">>>>) = Some(Num(1))

(***************************************************************************)
(* C14: a mapped field and the variable its name derives                   *)
(***************************************************************************)
\* C14: a field with an explicit mapping reads from the mapped variable and not from
\* the prefix-derived one: in the tree collect returns under a prefix, a mapped field
\* is present only when its mapped variable (or an override for it) is set, and then
\* has that value, whatever PREFIX_FIELD is set to.
C14_MappedVariableOnly ==
  ret.op = "collect" /\ self.prefix # None =>
    \A f \in DOMAIN self.field_mappings :
       f \in DOMAIN ret.tree.o =>
         /\ self.field_mappings[f] \in DOMAIN self.overrides \cup DOMAIN environ
         /\ ret.tree.o[f] = MappedFields(self, environ)[f]

\* with a mapped to DB and DB not set, collect under prefix APP has given a the value
\* of APP_A
C14_DerivedVariableRead ==
  /\ ret.op = "collect" /\ self.prefix = Some(<<"A","P","P">>)
  /\ DOMAIN self.field_mappings = {<<"a">>} /\ self.field_mappings[<<"a">>] = <<"D","B">>
  /\ <<"D","B">> \notin DOMAIN self.overrides \cup DOMAIN environ
  /\ <<"A","P","P","_","A">> \in DOMAIN environ
  /\ <<"a">> \in DOMAIN ret.tree.o
  /\ ret.tree.o[<<"a">>] = parse_env_value(environ[<<"A","P","P","_","A">>])

(***************************************************************************)
(* C15: direct lookup                                                      *)
(***************************************************************************)
\* the external key of a field: the mapped name when the field has a mapping, else
\* the prefix and the field joined by the separator, upper case unless case sensitive
ExternalKey(self_, field) ==
  IF field \in DOMAIN self_.field_mappings THEN self_.field_mappings[field]
  ELSE LET joined == IF self_.prefix = None THEN field
                     ELSE self_.prefix[1] \o self_.separator \o field
       IN IF self_.case_sensitive THEN joined ELSE to_uppercase(joined)

\* C15: get_value and has_value of a field look up the external key of the field: the
\* join of prefix and field, case-normalised, or the exact mapped name when the field
\* has an explicit mapping; the override for that key comes before the live variable.
C15_DirectLookup ==
  /\ ret.op = "get_value" =>
       ret.value = IF ExternalKey(self, ret.key) \in DOMAIN self.overrides
                   THEN Some(parse_env_value(self.overrides[ExternalKey(self, ret.key)]))
                   ELSE IF ExternalKey(self, ret.key) \in DOMAIN environ
                        THEN Some(parse_env_value(environ[ExternalKey(self, ret.key)]))
                        ELSE None
  /\ ret.op = "has_value" =>
       ret.present = (ExternalKey(self, ret.key) \in DOMAIN self.overrides \cup DOMAIN environ)

\* get_value of a, mapped to DB with DB set, has found nothing
C15_MappingNotConsulted ==
  /\ ret.op = "get_value" /\ ret.key = <<"a">>
  /\ <<"a">> \in DOMAIN self.field_mappings /\ self.field_mappings[<<"a">>] = <<"D","B">>
  /\ <<"D","B">> \in DOMAIN environ
  /\ ret.value = None

(***************************************************************************)
(* C16: collect with field mappings                                        *)
(***************************************************************************)
\* the fields whose mapped key has an override, or a live variable in the environment
\* that the read of the field saw
Resolved(self_, seen) ==
  {f \in DOMAIN self_.field_mappings :
     self_.field_mappings[f] \in DOMAIN self_.overrides \cup DOMAIN seen[f]}

\* the prefixed variables that are no mapping's target
Remaining(self_, env) ==
  IF self_.prefix = None THEN {}
  ELSE {n \in DOMAIN env : /\ starts_with(KeyCheck(self_, n), PrefixStr(self_))
                           /\ \A f \in DOMAIN self_.field_mappings : self_.field_mappings[f] # n}

\* the lowercase flat name a prefixed variable derives
DerivedName(self_, n) ==
  to_lowercase(trim_start_matches(DropFirst(KeyCheck(self_, n), Len(PrefixStr(self_))),
                                  self_.separator))

\* C16: with field mappings registered, the tree collect returns holds every mapped
\* field whose exact external key has an override or a live variable, with the
\* override's value before the variable's; every remaining prefixed variable, none of
\* them a mapping target, has its derived lowercase flat name in the tree, and a key
\* that is no resolved mapped field has the value of such a variable: a mapped value is
\* never overwritten. Each mapped variable is live or not as the environment was at
\* one instant of the call, the instant env::var read it, and the prefixed variables
\* are those of the environment that env::vars() read at the end.
C16_MappedFirst ==
  ret.op = "collect" /\ DOMAIN self.field_mappings # {} =>
    \E at \in [DOMAIN self.field_mappings -> 1..Len(ret.instants)] :
       LET seen == [f \in DOMAIN self.field_mappings |-> ret.instants[at[f]]]
       IN /\ \A f \in Resolved(self, seen) :
                /\ f \in DOMAIN ret.tree.o
                /\ ret.tree.o[f] =
                     IF self.field_mappings[f] \in DOMAIN self.overrides
                     THEN parse_env_value(self.overrides[self.field_mappings[f]])
                     ELSE parse_env_value(seen[f][self.field_mappings[f]])
          /\ \A n \in Remaining(self, environ) : DerivedName(self, n) \in DOMAIN ret.tree.o
          /\ \A k \in DOMAIN ret.tree.o \ Resolved(self, seen) :
                \E n \in Remaining(self, environ) :
                   DerivedName(self, n) = k /\ ret.tree.o[k] = parse_env_value(environ[n])

\* with a mapped to DB, DB=1 and APP_A=x and no other thread at work, collect under
\* prefix APP has returned a = 1
C16_MappedValueWins ==
  /\ ret.op = "collect" /\ Len(ret.instants) = 1 /\ self.prefix = Some(<<"A","P","P">>)
  /\ <<"a">> \in DOMAIN self.field_mappings /\ self.field_mappings[<<"a">>] = <<"D","B">>
  /\ <<"D","B">> \in DOMAIN environ /\ environ[<<"D","B">>] = <<"1">>
  /\ <<"A","P","P","_","A">> \in DOMAIN environ /\ environ[<<"A","P","P","_","A">>] = <<"x">>
  /\ ret.tree.o[<<"a">>] = Num(1)

\* a is mapped to DB: DB=x was read, another thread then removed DB and set APP_A=1,
\* and collect under prefix APP has returned a = "x" all the same
C16_MappedValueKept ==
  /\ ret.op = "collect" /\ self.prefix = Some(<<"A","P","P">>)
  /\ self.field_mappings = <<"a">> :> <<"D","B">> /\ DOMAIN self.overrides = {}
  /\ ret.instants = <<<<"D","B">> :> <<"x">>, EmptyMap, <<"A","P","P","_","A">> :> <<"1">>>>
  /\ ret.tree = VObject(<<"a">> :> VString(<<"x">>))

(***************************************************************************)
(* C17: skipped fields                                                     *)
(***************************************************************************)
\* the skipped fields of the struct a call loads
Skipped(frame) == {f \in Range(opts[frame.ty].fields) : Skips(f)}

\* the call has built the tree it deserializes
HasTree(frame) ==
  frame.pc \in {"remove", "deserialize", "replace"} \/ (frame.pc = "done" /\ frame.result.ok)

\* no source registered by the call has a mapping or a default for the field
Unmapped(frame, ident) ==
  \A i \in 1..Len(frame.builder.sources) :
     LET source == frame.builder.sources[i]
     IN IF source.src = "env" THEN ident \notin DOMAIN source.env.field_mappings
        ELSE source.kind \in {"Cli", "Default"} => ident \notin DOMAIN source.tree.o


\* the field of a successful result has the default of its type
LeftDefault(frame, f) ==
  frame.pc = "done" /\ frame.result.ok =>
    frame.result.v.o[f.ident] = default_value(f.ty, opts)

\* the field of a successful result has the value the built tree holds under its name,
\* and the default of its type when the tree holds none
TakenFromTree(frame, f) ==
  frame.pc = "done" /\ frame.result.ok =>
    frame.result.v.o[f.ident] =
      IF f.ident \in DOMAIN frame.config_value.o THEN frame.config_value.o[f.ident]
      ELSE default_value(f.ty, opts)

\* C17: a skipped field is excluded from loading: for every call, no env mapping, CLI
\* mapping or default is generated for it, its value never appears in the tree from
\* which the struct is built, and the variable PREFIX_FIELD is ignored, the field
\* keeping the default of its type.
C17_SkippedExcluded ==
  \A n \in 1..Len(stack) : \A f \in Skipped(stack[n]) :
     /\ Unmapped(stack[n], f.ident)
     /\ HasTree(stack[n]) /\ IsObject(stack[n].config_value) =>
          f.ident \notin DOMAIN stack[n].config_value.o
     /\ LeftDefault(stack[n], f)

\* C17, as the code has it: for every call, no env mapping, CLI mapping or default is
\* generated for a skipped field; the tree from which the struct is built can still
\* hold the value of PREFIX_FIELD under the field's name, and what the field gets is
\* left to serde: with #[serde(skip)] too it keeps the default of its type whatever
\* PREFIX_FIELD and the command line hold, without it the field takes what the tree
\* holds under its name.
C17_SkippedNotBound ==
  \A n \in 1..Len(stack) : \A f \in Skipped(stack[n]) :
     /\ Unmapped(stack[n], f.ident)
     /\ IF f.serde_skip THEN LeftDefault(stack[n], f) ELSE TakenFromTree(stack[n], f)

\* from_gonfig has returned runtime_data = None for the struct as it is declared, with
\* #[skip] and #[serde(skip)], while APP_RUNTIME_DATA is set and --runtime-data is on
\* the command line
C17_SkippedVariableSet ==
  /\ ret.op = "from_gonfig" /\ ret.ty = "AppConfigWithSkip" /\ ret.result.ok
  /\ opts["AppConfigWithSkip"].fields[2].skip /\ opts["AppConfigWithSkip"].fields[2].serde_skip
  /\ <<"A","P","P","_","R","U","N","T","I","M","E","_","D","A","T","A">> \in DOMAIN environ
  /\ <<"r","u","n","t","i","m","e","-","d","a","t","a">> \in DOMAIN args
  /\ ret.result.v.o[<<"r","u","n","t","i","m","e","_","d","a","t","a">>] = VNull

\* .. and with #[skip] alone the variable reached the field
C17_SkippedVariableBound ==
  /\ ret.op = "from_gonfig" /\ ret.ty = "AppConfigWithSkip" /\ ret.result.ok
  /\ opts["AppConfigWithSkip"].fields[2].skip /\ ~opts["AppConfigWithSkip"].fields[2].serde_skip
  /\ <<"A","P","P","_","R","U","N","T","I","M","E","_","D","A","T","A">> \in DOMAIN environ
  /\ ret.result.v.o[<<"r","u","n","t","i","m","e","_","d","a","t","a">>] = VString(<<"x">>)

(***************************************************************************)
(* C18: the round trip of nested mode                                      *)
(***************************************************************************)
\* the tree flattened: the keys along each leaf path joined by the separator
Flattened(self_, tree) == {join(p, self_.separator) : p \in LeafPaths(tree)}

\* the stripped names of the variables the source reads, case-normalised
StrippedNames(self_, env) ==
  {to_lowercase(EnvFlatKey(self_, n)[1]) : n \in {k \in DOMAIN env : EnvFlatKey(self_, k) # None}}

\* the variables the source reads, as remainders
ReadRemainders(self_, env) ==
  {[key |-> EnvFlatKey(self_, k)[1], value |-> parse_env_value(env[k])] :
     k \in {n \in DOMAIN env : EnvFlatKey(self_, n) # None}}

\* C18: for every set of qualifying variables, flattening the tree collect returns in
\* nested mode reproduces exactly the set of their stripped names, up to case: none is
\* lost and none is added.
C18_RoundTrip ==
  /\ ret.op = "collect" /\ self.nested
  /\ DOMAIN self.field_mappings = {} /\ DOMAIN self.overrides = {}
  => Flattened(self, ret.tree) = StrippedNames(self, environ)

\* C18, for the sets of variables it holds for: when no variable's path is over or
\* under the path of another and no variable's value reads as a JSON Object, flattening
\* the tree collect returns in nested mode reproduces exactly the set of the stripped
\* names, up to case.
C18_RoundTripUnrivalled ==
  /\ ret.op = "collect" /\ self.nested
  /\ DOMAIN self.field_mappings = {} /\ DOMAIN self.overrides = {}
  /\ \A r \in ReadRemainders(self, environ) :
        Unrivalled(self, environ, r) /\ ~IsObject(r.value)
  => Flattened(self, ret.tree) = StrippedNames(self, environ)

\* collect in nested mode has returned {"a": {"b": 1}} for APP_A={"b":1} alone: the
\* tree flattens to a_b, and the stripped name is a
C18_ObjectValueFlattened ==
  /\ ret.op = "collect" /\ self.nested /\ self.prefix = Some(<<"A","P","P">>)
  /\ DOMAIN self.field_mappings = {} /\ DOMAIN self.overrides = {}
  /\ DOMAIN environ = {<<"A","P","P","_","A">>}
  /\ ret.tree = VObject(<<"a">> :> VObject(<<"b">> :> Num(1)))
  /\ Flattened(self, ret.tree) = {<<"a","_","b">>}
  /\ StrippedNames(self, environ) = {<<"a">>}

\* collect in nested mode has returned {"a": {}} for APP_A={} alone: the tree has no
\* leaf, and flattens to no name
C18_EmptyObjectLost ==
  /\ ret.op = "collect" /\ self.nested /\ self.prefix = Some(<<"A","P","P">>)
  /\ DOMAIN self.field_mappings = {} /\ DOMAIN self.overrides = {}
  /\ DOMAIN environ = {<<"A","P","P","_","A">>}
  /\ ret.tree = VObject(<<"a">> :> VObject(EmptyMap))
  /\ Flattened(self, ret.tree) = {}

\* collect in nested mode has returned a.b and port for APP_A_B and APP_PORT
C18_TwoNamesBack ==
  /\ ret.op = "collect" /\ self.nested /\ self.prefix = Some(<<"A","P","P">>)
  /\ DOMAIN self.field_mappings = {} /\ DOMAIN self.overrides = {}
  /\ DOMAIN environ = {<<"A","P","P","_","A","_","B">>, <<"A","P","P","_","P","O","R","T">>}
  /\ Flattened(self, ret.tree) = {<<"a","_","b">>, <<"p","o","r","t">>}

(***************************************************************************)
(* C19: the Deep merge                                                     *)
(***************************************************************************)
\* m is the Deep merge of the earlier a and the later b: at a key of both, the merge
\* of the two when both are Objects and else the later value whole; a key of one alone
\* unchanged
RECURSIVE DeepMerged(_, _, _)
DeepMerged(a, b, m) ==
  IF IsObject(a) /\ IsObject(b)
  THEN /\ IsObject(m)
       /\ DOMAIN m.o = DOMAIN a.o \cup DOMAIN b.o
       /\ \A k \in DOMAIN m.o :
             IF k \in DOMAIN a.o /\ k \in DOMAIN b.o
             THEN IF IsObject(a.o[k]) /\ IsObject(b.o[k])
                  THEN DeepMerged(a.o[k], b.o[k], m.o[k])
                  ELSE m.o[k] = b.o[k]
             ELSE IF k \in DOMAIN b.o THEN m.o[k] = b.o[k] ELSE m.o[k] = a.o[k]
  ELSE m = b

\* C19: under Deep, the tree built from no tree is the empty Object, and the tree built
\* from a sequence of trees is the Deep merge of the tree built from all but the last
\* with the last: Objects at a key of both merged recursively, any other pair replaced
\* by the later value (arrays wholesale), keys of one tree alone kept.
C19_DeepMerge ==
  ret.op = "build_value" /\ builder.merge_strategy = "Deep" =>
    IF ret.trees = <<>> THEN ret.tree = VObject(EmptyMap)
    ELSE DeepMerged(merge_all(SubSeq(ret.trees, 1, Len(ret.trees) - 1), "Deep"),
                    ret.trees[Len(ret.trees)], ret.tree)

\* {"k": {"a": 2, "b": [1]}} then {"k": {"b": [2, 3]}} then {"k": {"a": {"c": 1}},
\* "j": {"a": 1}} have been merged Deep
C19_MergedThree ==
  /\ ret.op = "build_value" /\ builder.merge_strategy = "Deep"
  /\ ret.trees = <<MergeFiles[<<"3">>].tree, MergeFiles[<<"5">>].tree, MergeFiles[<<"6">>].tree>>
  /\ ret.tree = VObject(<<"k">> :> VObject(<<"a">> :> VObject(<<"c">> :> Num(1)) @@
                                        <<"b">> :> VArray(<<Num(2), Num(3)>>)) @@
                        <<"j">> :> VObject(<<"a">> :> Num(1)))


(***************************************************************************)
(* C20: the validation hook                                                *)
(***************************************************************************)
\* the hook of the builder said no to the tree it was called with
Rejected(call) ==
  /\ builder.validator # None
  /\ call.hook_calls # <<>>
  /\ ~Verdict(builder.validator[1], call.hook_calls[1])

\* what every build, running or returned, keeps to
HookDiscipline(call) ==
  /\ Len(call.hook_calls) <= 1
  /\ call.hook_calls # <<>> =>
       /\ builder.validator # None
       /\ call.merged = Some(call.hook_calls[1])
       /\ \E out \in build_value(builder, environ) : out.tree = call.hook_calls[1]
  /\ call.bound # None =>
       /\ call.bound = call.merged
       /\ builder.validator # None => Len(call.hook_calls) = 1
       /\ ~Rejected(call)
  /\ Rejected(call) => call.result \in {Fail, Err("Validation")}

\* C20: a build calls the validation hook exactly once when one is registered, with the
\* tree merged from all sources and before the tree is bound; the tree that is bound is
\* the tree the hook saw; and when the hook rejects, the build returns a Validation error
\* and no configuration, the tree being never bound
C20_ValidationHook ==
  /\ stack # <<>> /\ Top.op = "build" =>
       /\ HookDiscipline(Top)
       /\ Top.pc \in {"merge", "validate"} => Top.hook_calls = <<>> /\ Top.bound = None
       /\ Top.pc \in {"bind", "done"} /\ builder.validator # None => Len(Top.hook_calls) = 1
       /\ Top.pc = "done" /\ Rejected(Top) => Top.result = Err("Validation")
  /\ ret.op = "build" =>
       /\ HookDiscipline(ret)
       /\ Len(ret.hook_calls) = (IF builder.validator # None THEN 1 ELSE 0)
       /\ Rejected(ret) => ret.result = Err("Validation") /\ ret.bound = None
       /\ ret.result.ok => ret.bound = ret.merged /\ ~Rejected(ret)

\* a build over a file and the environment returned a Validation error: the hook saw
\* the name that the environment put over the name of the file
C20_RejectedAfterMerge ==
  /\ ret.op = "build"
  /\ Len(builder.sources) = 2
  /\ builder.validator = Some("name_not_x")
  /\ ret.hook_calls = <<ret.merged[1]>>
  /\ ret.result = Err("Validation")
  /\ ret.bound = None

\* a build with a hook that accepts returned a configuration
C20_AcceptedAndBound ==
  /\ ret.op = "build"
  /\ builder.validator = Some("name_not_x")
  /\ Len(ret.hook_calls) = 1
  /\ ret.result.ok

\* a build bound the http section of config.json, an Array, by position
C20_ArraySectionBound ==
  /\ ret.op = "build" /\ ret.result.ok
  /\ TreeGet(ret.merged[1], <<<<"h","t","t","p">>>>) = Some(VArray(<<Num(81)>>))
  /\ ret.result.v.o[<<"h","t","t","p">>] = VObject(<<"p","o","r","t">> :> Num(81) @@ <<"t","l","s">> :> default_value("TlsConfig", Structs))

(***************************************************************************)
(* C21: a default that the field's type cannot take                        *)
(***************************************************************************)
\* the value the derive puts in the defaults for a literal: the JSON it parses to, or
\* else the string
DefaultJson(literal) == IF from_str(literal).ok THEN from_str(literal).v ELSE VString(literal)

\* a regular field of the struct has a default that its type cannot take
MalformedDefault(o) ==
  \E i \in 1..Len(o.fields) :
     /\ ~Skips(o.fields[i]) /\ ~o.fields[i].nested /\ o.fields[i].default # None
     /\ ~from_value(o.fields[i].ty, DefaultJson(o.fields[i].default[1]), opts).ok

\* C21: a call of from_gonfig for a struct with a default that the field's type cannot
\* take fails when the defaults are given to the builder: once past that step the call
\* has failed, and it has built no tree
C21_FailsAtDefaults ==
  \A i \in 1..Len(stack) :
     MalformedDefault(opts[stack[i].ty])
       /\ stack[i].pc \notin {"compose", "env", "cli", "config", "defaults"}
     => stack[i].pc = "done" /\ ~stack[i].result.ok /\ stack[i].config_value = VNull

\* the default "x" of port was given to the builder, the tree was built with it, and
\* the call failed when the tree was bound
C21_DeferredToBind ==
  /\ Len(stack) = 2 /\ Top.ty = "ServerConfig"
  /\ MalformedDefault(opts[Top.ty])
  /\ <<"T","R","A","D","E","S","M","I","T","H","_","S","E","R","V","E","R","_","P","O","R","T">> \notin DOMAIN environ
  /\ Top.pc = "done" /\ ~Top.result.ok
  /\ TreeGet(Top.config_value, <<<<"p","o","r","t">>>>) = Some(VString(<<"x">>))

\* .. and with the variable of port set the default is never bound: the call succeeds
C21_NeverFails ==
  /\ Len(stack) = 2 /\ Top.ty = "ServerConfig"
  /\ MalformedDefault(opts[Top.ty])
  /\ Top.pc = "done" /\ Top.result.ok

(***************************************************************************)
(* C22: the default config file                                            *)
(***************************************************************************)
\* the default config files, in the order they are looked for
DefaultConfigFiles == <<<<"c","o","n","f","i","g",".","t","o","m","l">>, <<"c","o","n","f","i","g",".","y","a","m","l">>, <<"c","o","n","f","i","g",".","j","s","o","n">>>>

\* the positions of the default config files that exist
Existing == {n \in 1..Len(DefaultConfigFiles) : DefaultConfigFiles[n] \in DOMAIN files}

\* the first that exists
Selected == DefaultConfigFiles[CHOOSE n \in Existing : \A m \in Existing : n <= m]

\* the file sources a call has registered
FileSources(frame) ==
  SelectSeq(frame.builder.sources, LAMBDA source : SourceType(source) = "ConfigFile")

\* C22: a call of a struct with allow_config registers, at its config step, the first of
\* config.toml, config.yaml, config.json that exists and no other file; with none of them
\* it goes on with no file and no error of a file; when the first that exists cannot be
\* read the call ends there with that error, with no tree built and no child resolved.
\* A struct without allow_config registers no file.
C22_FirstConfigFile ==
  /\ \A i \in 1..Len(stack) :
       LET frame == stack[i]
       IN IF frame.pc \in {"compose", "env", "cli", "config"}
             \/ ~opts[frame.ty].allow_config \/ Existing = {}
          THEN /\ FileSources(frame) = <<>>
               /\ ~frame.result.ok /\ frame.pc = "done" => frame.result # Raised("Decode", frame.ty)
          ELSE IF files[Selected].ok
          THEN /\ FileSources(frame) = <<TreeSource("ConfigFile", files[Selected].tree)>>
               /\ ~frame.result.ok /\ frame.pc = "done" => frame.result # Raised("Decode", frame.ty)
          ELSE /\ FileSources(frame) = <<>>
               /\ frame.pc = "done" /\ frame.result = Raised("Decode", frame.ty)
               /\ frame.config_value = VNull /\ frame.children = EmptyMap
  /\ ret.op = "from_gonfig" /\ opts[ret.ty].allow_config /\ Existing # {} /\ ~files[Selected].ok
       => ret.result = Raised("Decode", ret.ty)

\* config.toml and config.yaml can both be read and config.json cannot; the call, past
\* its config step, holds the tree of config.toml alone
C22_FirstOfThree ==
  /\ Existing = {1, 2, 3}
  /\ ~files[<<"c","o","n","f","i","g",".","j","s","o","n">>].ok
  /\ Len(stack) = 1 /\ Top.pc = "nested"
  /\ FileSources(Top) = <<TreeSource("ConfigFile", files[<<"c","o","n","f","i","g",".","t","o","m","l">>].tree)>>

\* config.yaml cannot be read while config.json can: from_gonfig returned the error
C22_SelectedUnreadable ==
  /\ Existing = {2, 3}
  /\ files[<<"c","o","n","f","i","g",".","j","s","o","n">>].ok
  /\ ret.op = "from_gonfig" /\ ret.result = Raised("Decode", ret.ty)

\* no default config file exists and from_gonfig returned a configuration
C22_NoneExists ==
  /\ Existing = {}
  /\ ret.op = "from_gonfig" /\ ret.result.ok

(***************************************************************************)
(* C23: nested children before the parent's tree                           *)
(***************************************************************************)
\* the nested fields of a call's struct, and how many of them the call has resolved
NestedOf(frame) == nested_fields(opts[frame.ty])

ResolvedCount(frame) == Cardinality(DOMAIN frame.children)

\* the call has built no tree: no merged tree, no call of the hook, no value
NothingBuilt(frame) ==
  frame.config_value = VNull /\ frame.hook_calls = <<>> /\ ~frame.result.ok

\* in every state: the children a call holds are the first of its nested fields in
\* declaration order; a call in progress below it is the call for the next one, and
\* the caller has built nothing yet; a tree, a hook call or a value needs every child;
\* an error raised by another struct's call leaves the caller with nothing built
ChildrenInOrder ==
  /\ \A i \in 1..Len(stack) :
       LET frame == stack[i]
       IN /\ ResolvedCount(frame) <= Len(NestedOf(frame))
          /\ DOMAIN frame.children = {NestedOf(frame)[j].ident : j \in 1..ResolvedCount(frame)}
          /\ i < Len(stack) =>
               /\ frame.pc = "nested" /\ NothingBuilt(frame)
               /\ ResolvedCount(frame) < Len(NestedOf(frame))
               /\ stack[i + 1].ty = NestedOf(frame)[ResolvedCount(frame) + 1].ty
               /\ stack[i + 1].parent_prefix = frame.composed_prefix
          /\ frame.config_value # VNull \/ frame.hook_calls # <<>> \/ frame.result.ok =>
               ResolvedCount(frame) = Len(NestedOf(frame))
          /\ ~frame.result.ok /\ frame.pc = "done" /\ frame.result.by # frame.ty =>
               /\ NothingBuilt(frame)
               /\ ResolvedCount(frame) < Len(NestedOf(frame))
  /\ ret.op = "from_gonfig" /\ ~ret.result.ok => "v" \notin DOMAIN ret.result

\* in every step: a call that returns an error to its caller ends the caller with that
\* very error, its children as they were
ChildErrorReturned ==
  Len(stack) >= 2 /\ Top.pc = "done" /\ ~Top.result.ok /\ stack' # stack =>
    /\ Len(stack') = Len(stack) - 1
    /\ stack'[Len(stack')] = [stack[Len(stack) - 1] EXCEPT !.result = Top.result, !.pc = "done"]

\* C23: every nested child is resolved, in declaration order, before the tree of the
\* parent is built; the first child that fails ends the parent's call with the child's
\* error: no later child is resolved, no tree is built or validated, no value returned
C23_ChildrenFirst == []ChildrenInOrder /\ [][ChildErrorReturned]_vars

\* the first child, server, failed on its port; the parent's call has ended with the
\* error of ServerConfig, database unresolved and no tree built
C23_FirstChildFailed ==
  /\ Len(stack) = 1 /\ Top.ty = "TradeSmithConfig" /\ Top.pc = "done"
  /\ Top.result = Raised("Binding", "ServerConfig")
  /\ Top.children = EmptyMap /\ Top.config_value = VNull
  /\ <<"T","R","A","D","E","S","M","I","T","H","_","D","A","T","A","B","A","S","E","_","U","R","L">> \in DOMAIN environ

\* server was resolved and database failed
C23_SecondChildFailed ==
  /\ Len(stack) = 1 /\ Top.ty = "TradeSmithConfig" /\ Top.pc = "done"
  /\ Top.result = Raised("Binding", "DatabaseConfig")
  /\ DOMAIN Top.children = {<<"s","e","r","v","e","r">>} /\ Top.config_value = VNull

(***************************************************************************)
(* C25: the classes of fields                                              *)
(***************************************************************************)
\* the class of a field: skip is looked at first, nested second
ClassOf(f) == IF Skips(f) THEN "skip" ELSE IF f.nested THEN "nested" ELSE "regular"

\* the names of the fields of a class
InClass(o, class) == {o.fields[j].ident : j \in {n \in 1..Len(o.fields) : ClassOf(o.fields[n]) = class}}

\* the regular fields that carry a default
Defaulted(o) ==
  {o.fields[j].ident : j \in {n \in 1..Len(o.fields) :
                                ClassOf(o.fields[n]) = "regular" /\ o.fields[n].default # None}}

\* C25: every field is of one class, skip before nested before regular: the mappings
\* are those of the regular fields, the nested fields are the fields that are nested and
\* not skipped, in declaration order; the Environment source of a call maps the regular
\* fields and no other, its defaults hold the regular fields with a default and no
\* other, and a child is resolved for a field of class nested only
C25_OneClass ==
  \A i \in 1..Len(stack) :
     LET frame == stack[i]
         o == opts[frame.ty]
     IN /\ {regular_mappings(o)[j].field_name : j \in 1..Len(regular_mappings(o))} = InClass(o, "regular")
        /\ {default_mappings(o)[j].field_name : j \in 1..Len(default_mappings(o))} = Defaulted(o)
        /\ nested_fields(o) = SelectSeq(o.fields, LAMBDA f : ClassOf(f) = "nested")
        /\ \A n \in 1..Len(frame.builder.sources) :
             LET source == frame.builder.sources[n]
             IN /\ source.src = "env" => DOMAIN source.env.field_mappings = InClass(o, "regular")
                /\ SourceType(source) = "Default" => DOMAIN source.tree.o = Defaulted(o)
        /\ DOMAIN frame.children \subseteq InClass(o, "nested")
        /\ i < Len(stack) =>
             \E j \in 1..Len(o.fields) :
                ClassOf(o.fields[j]) = "nested" /\ o.fields[j].ty = stack[i + 1].ty

\* server is nested and carries an env_name and a default, database is nested and
\* skipped, the variable of the env_name is set: from_gonfig resolved server as a child
\* and left database at its default, and its sources mapped and defaulted environment
\* alone
C25_AttributesWithoutEffect ==
  /\ Len(stack) = 1 /\ Top.ty = "TradeSmithConfig" /\ Top.pc = "done" /\ Top.result.ok
  /\ opts["TradeSmithConfig"].fields[1].env_name = Some(<<"S","R","V">>)
  /\ opts["TradeSmithConfig"].fields[2].skip_gonfig
  /\ <<"S","R","V">> \in DOMAIN environ
  /\ DOMAIN Top.children = {<<"s","e","r","v","e","r">>}
  /\ Top.result.v.o[<<"d","a","t","a","b","a","s","e">>] = default_value("DatabaseConfig", opts)

(***************************************************************************)
(* C29: the tree the validation hook inspects                              *)
(***************************************************************************)
\* C29: when a call for a struct with nested fields has called the hook, the tree the
\* hook was given holds, under the key of every nested field, the value the child
\* resolved to
C29_HookSeesChildren ==
  \A i \in 1..Len(stack) :
     stack[i].hook_calls # <<>> =>
       \A f \in DOMAIN stack[i].children :
          TreeGet(stack[i].hook_calls[1], <<f>>) = Some(stack[i].children[f])

\* from_gonfig_with_builder returned a configuration that the hook accepted: the hook
\* was given the server section of config.json, with the port 0, and the configuration
\* holds the port the child resolved, 8080
C29_HookSawAnotherPort ==
  /\ Len(stack) = 1 /\ Top.ty = "TradeSmithConfig" /\ Top.pc = "done" /\ Top.result.ok
  /\ Top.builder.validator = Some("accept")
  /\ Len(Top.hook_calls) = 1
  /\ TreeGet(Top.hook_calls[1], <<<<"s","e","r","v","e","r">>, <<"p","o","r","t">>>>) = Some(Num(0))
  /\ TreeGet(Top.result.v, <<<<"s","e","r","v","e","r">>, <<"p","o","r","t">>>>) = Some(Num(8080))

(***************************************************************************)
(* C24: insert_nested                                                      *)
(***************************************************************************)
\* the paths of all entries of a value, at every level
RECURSIVE EntryPaths(_)
EntryPaths(v) ==
  IF IsObject(v)
  THEN UNION {{<<k>>} \cup {<<k>> \o p : p \in EntryPaths(v.o[k])} : k \in DOMAIN v.o}
  ELSE {}

IsPrefix(p, q) == Len(p) <= Len(q) /\ SubSeq(q, 1, Len(p)) = p

\* neither path lies on the other
Apart(p, q) == ~IsPrefix(p, q) /\ ~IsPrefix(q, p)

\* C24: insert_nested with a non-empty path leaves the value at the path, with an Object
\* at every segment before the last, whatever the map held there; the entries that lie
\* apart from the path are the same before and after
C24_InsertNested ==
  ret.op = "insert_nested" /\ ret.parts # <<>> =>
    /\ TreeGet(VObject(ret.after), ret.parts) = Some(ret.value)
    /\ \A n \in 1..(Len(ret.parts) - 1) :
         /\ TreeGet(VObject(ret.after), SubSeq(ret.parts, 1, n)) # None
         /\ IsObject(TreeGet(VObject(ret.after), SubSeq(ret.parts, 1, n))[1])
    /\ \A q \in EntryPaths(VObject(ret.before)) \cup EntryPaths(VObject(ret.after)) :
         Apart(q, ret.parts) =>
           TreeGet(VObject(ret.after), q) = TreeGet(VObject(ret.before), q)

\* a.b.c was put in a map where a.b held a number, beside the entry b: a.b is now an
\* Object with c, and b is as it was
C24_ScalarSegmentOverwritten ==
  /\ ret.op = "insert_nested" /\ ret.parts = <<<<"a">>, <<"b">>, <<"c">>>>
  /\ TreeGet(VObject(ret.before), <<<<"a">>, <<"b">>>>) = Some(Num(1))
  /\ <<"b">> \in DOMAIN ret.before
  /\ TreeGet(VObject(ret.after), <<<<"a">>, <<"b">>>>) = Some(VObject(<<"c">> :> ret.value))
  /\ ret.after[<<"b">>] = ret.before[<<"b">>]

\* an Object at the leaf was replaced by a string
C24_ObjectLeafReplaced ==
  /\ ret.op = "insert_nested" /\ ret.parts = <<<<"a">>>>
  /\ <<"a">> \in DOMAIN ret.before /\ IsObject(ret.before[<<"a">>])
  /\ ret.after[<<"a">>] = VString(<<"x">>)

(***************************************************************************)
(* C26: determinism of collect                                             *)
(***************************************************************************)
\* C26: for the environment and the Environment as they are, collect() can return one
\* tree only, the one it returned
C26_Deterministic ==
  ret.op = "collect" => collect(self, environ) = {ret.tree}

\* nested mode with APP_A and APP_A_B set: collect() returned the tree in which a is the
\* value of APP_A, and can as well return the tree in which a is the Object that holds b
C26_OrderOfFlatMap ==
  /\ ret.op = "collect" /\ self.nested /\ self.prefix = Some(<<"A","P","P">>)
  /\ DOMAIN self.field_mappings = {}
  /\ DOMAIN environ = {<<"A","P","P","_","A">>, <<"A","P","P","_","A","_","B">>}
  /\ ret.tree = VObject(<<"a">> :> parse_env_value(environ[<<"A","P","P","_","A">>]))
  /\ VObject(<<"a">> :> VObject(<<"b">> :> parse_env_value(environ[<<"A","P","P","_","A","_","B">>]))) \in collect(self, environ)

\* APP_PORT and app_port hold different values: either can end under port
C26_OrderOfVariables ==
  /\ ret.op = "collect" /\ ~self.nested /\ self.prefix = Some(<<"A","P","P">>) /\ ~self.case_sensitive
  /\ DOMAIN self.field_mappings = {} /\ DOMAIN self.overrides = {}
  /\ DOMAIN environ = {<<"A","P","P","_","P","O","R","T">>, <<"a","p","p","_","p","o","r","t">>}
  /\ environ[<<"A","P","P","_","P","O","R","T">>] # environ[<<"a","p","p","_","p","o","r","t">>]
  /\ Cardinality(collect(self, environ)) = 2

(***************************************************************************)
(* C27: the lookup of one key and the collected tree                       *)
(***************************************************************************)
\* the entry of the key in a tree
EntryOf(tree, key) == IF key \in DOMAIN tree.o THEN Some(tree.o[key]) ELSE None

\* C27: in flat mode without field mappings, get_value(k) is the entry of k in the tree
\* that collect() returns, and has_value(k) tells whether get_value(k) is Some
C27_LookupAgrees ==
  ~self.nested /\ DOMAIN self.field_mappings = {} =>
    /\ ret.op = "get_value" =>
         \A tree \in collect(self, environ) : ret.value = EntryOf(tree, ret.key)
    /\ ret.op = "has_value" => ret.present = (get_value(self, environ, ret.key) # None)

\* with the prefix APP and app_port alone set, collect() has the key port and
\* get_value("port") returned None
C27_LowercaseVariableMissed ==
  /\ ret.op = "get_value" /\ ret.key = <<"p","o","r","t">> /\ ret.value = None
  /\ ~self.nested /\ ~self.case_sensitive /\ self.prefix = Some(<<"A","P","P">>)
  /\ DOMAIN self.field_mappings = {} /\ DOMAIN self.overrides = {}
  /\ DOMAIN environ = {<<"a","p","p","_","p","o","r","t">>}
  /\ \A tree \in collect(self, environ) : <<"p","o","r","t">> \in DOMAIN tree.o

\* .. and has_value agrees with get_value all the same
C27_HasValueAgrees ==
  ret.op = "has_value" => ret.present = (get_value(self, environ, ret.key) # None)

(***************************************************************************)
(* C28: empty keys                                                         *)
(***************************************************************************)
\* C28: no entry of the tree that collect() returns, at any level, has the empty
\* string as its key
C28_NoEmptyKey ==
  ret.op = "collect" =>
    \A p \in EntryPaths(ret.tree) : \A i \in 1..Len(p) : p[i] # <<>>

\* with the prefix APP, the variable APP is in the tree under the empty key
C28_PrefixAloneRead ==
  /\ ret.op = "collect" /\ self.prefix = Some(<<"A","P","P">>)
  /\ <<"A","P","P">> \in DOMAIN environ
  /\ TreeGet(ret.tree, <<<<>>>>) = Some(parse_env_value(environ[<<"A","P","P">>]))

\* insert_nested with the empty path leaves the map as it is
C28_EmptyPathNoOp ==
  ret.op = "insert_nested" /\ ret.parts = <<>> => ret.after = ret.before

(***************************************************************************)
(* C30: one collect() and the instants of the environment                  *)
(***************************************************************************)
\* the tree is one that collect() returns for the environment of one instant
TreeOfInstant(tree, instants) ==
  \E n \in 1..Len(instants) :
     tree \in collect(self, instants[n]) /\ MaterialisedAt(self, instants[n], tree)

\* C30: the tree collect() returns while another thread changes the environment is a
\* tree of the environment as it was at one instant of the call
C30_Snapshot ==
  ret.op = "collect" =>
    \E n \in 1..Len(ret.instants) : ret.tree \in collect(self, ret.instants[n])

\* C30, for the sources it holds for: without field mappings, the tree collect() returns
\* while another thread changes the environment is a tree of the environment as it
\* was at one instant of the call
C30_SnapshotUnmapped ==
  ret.op = "collect" /\ DOMAIN self.field_mappings = {} =>
    TreeOfInstant(ret.tree, ret.instants)

\* without field mappings, collect() returned while the other thread set one variable and
\* removed another: the tree is that of the last instant and of no earlier one
C30_LastInstantRead ==
  /\ ret.op = "collect" /\ DOMAIN self.field_mappings = {} /\ self.prefix = Some(<<"A","P","P">>)
  /\ Len(ret.instants) = 3
  /\ ret.tree \in collect(self, ret.instants[3])
  /\ ret.tree \notin collect(self, ret.instants[1]) \cup collect(self, ret.instants[2])

\* a is mapped to DB: DB was read, then removed, then APP_X was set, then env::vars()
\* was read; the tree holds a and x, which no instant of the environment gives
C30_TwoInstantsMixed ==
  /\ ret.op = "collect" /\ self.prefix = Some(<<"A","P","P">>)
  /\ self.field_mappings = <<"a">> :> <<"D","B">>
  /\ ret.instants = <<<<"D","B">> :> <<"1">>, EmptyMap, <<"A","P","P","_","X">> :> <<"1">>>>
  /\ ret.tree = VObject(<<"a">> :> Num(1) @@ <<"x">> :> Num(1))

====
